---- MODULE Spec2Model ----
(***************************************************************************)
(* A model of the Virtual Boy driver src/src/mame/drivers/vboy.cpp:        *)
(* the VIP register file and interrupt line, the scanline callback, the    *)
(* programmable timer, the character (font) memory with its pre-flipped    *)
(* mirrors, the background-map sampler and the world / object walker.      *)
(*                                                                         *)
(* Registers are integers of the width the source gives them.  Each        *)
(* handler is one action; a property of one handler is stated as an action *)
(* property over the steps that handler can take.                          *)
(***************************************************************************)
EXTENDS Integers, Sequences, FiniteSets, TLC

VARIABLES
    m_vip_regs,     \* vip_regs_t
    m_vboy_regs,    \* vboy_regs_t
    m_vboy_timer,   \* vboy_timer_t
    m_frame_count, m_displayfb, m_drawfb, m_row_num,
    m_font,         \* character memory, normal bank and its mirrors
    m_bgmap,        \* VIPC memory (background maps, world and object tables)
    m_maintimer,    \* "never", or the period the programmable timer is armed with
    irq_line,       \* m_maincpu input lines 1 (timer) and 4 (VIP): TRUE = asserted
    m_palette,      \* red intensity of pens 0..3
    scanline,       \* param of the next vboy_scanlineL callback
    pass,           \* position of a screen_update_vboy_left/right pass
    ret,            \* what the handler that ran last returned
    h_run           \* history: the timer ticks since the counter was last loaded

vars == <<m_vip_regs, m_vboy_regs, m_vboy_timer, m_frame_count, m_displayfb,
          m_drawfb, m_row_num, m_font, m_bgmap, m_maintimer, irq_line,
          m_palette, scanline, pass, ret, h_run>>

----------------------------------------------------------------------------
(* C's integer operators on non-negative integers.                         *)

RECURSIVE BitAnd(_, _)
BitAnd(a, b) ==
    IF a = 0 \/ b = 0 THEN 0
    ELSE (a % 2) * (b % 2) + 2 * BitAnd(a \div 2, b \div 2)

RECURSIVE BitOr(_, _)
BitOr(a, b) ==
    IF a = 0 THEN b
    ELSE IF b = 0 THEN a
    ELSE (IF a % 2 = 1 \/ b % 2 = 1 THEN 1 ELSE 0) + 2 * BitOr(a \div 2, b \div 2)

RECURSIVE BitXor(_, _)
BitXor(a, b) ==
    IF a = 0 THEN b
    ELSE IF b = 0 THEN a
    ELSE ((a + b) % 2) + 2 * BitXor(a \div 2, b \div 2)

Shr(a, n) == a \div (2 ^ n)

Shl(a, n) == a * (2 ^ n)

\* bit n of a, as 0 or 1
Bit(a, n) == (a \div (2 ^ n)) % 2

\* conversion to uint16_t / uint8_t
U16(a) == a % 65536

U8(a) == a % 256

\* the division of ints, truncating toward zero
IntDiv(a, b) == IF a >= 0 THEN a \div b ELSE -((-a) \div b)

\* ~data & x for a uint16_t x
AndNot16(x, data) == BitAnd(x, 65535 - U16(data))

----------------------------------------------------------------------------
(* State after construction and machine_reset().                           *)

vip_regs_t ==
    [INTPND |-> 0, INTENB |-> 0, DPSTTS |-> 0, DPCTRL |-> 0, BRTA |-> 0,
     BRTB |-> 0, BRTC |-> 0, REST |-> 0, FRMCYC |-> 0, CTA |-> 0,
     XPSTTS |-> 0, XPCTRL |-> 0, VER |-> 0,
     SPT |-> [k \in 0..3 |-> 0], GPLT |-> [k \in 0..3 |-> 0],
     JPLT |-> [k \in 0..3 |-> 0], BKCOL |-> 0]

vboy_regs_t ==
    [lpc |-> 0, lpc2 |-> 0, lpt |-> 0, lpr |-> 0, khb |-> 0, klb |-> 0,
     thb |-> 0, tlb |-> 0, tcr |-> 0, wcr |-> 0, kcr |-> 128]

vboy_timer_t == [count |-> 0, latch |-> 0]

\* machine_reset() applied to the constructed registers
ResetVipRegs == [vip_regs_t EXCEPT !.DPCTRL = 2]

ResetVboyRegs ==
    [vboy_regs_t EXCEPT !.lpc = 109, !.lpc2 = 255, !.lpt = 0, !.lpr = 0,
                        !.klb = 0, !.khb = 0, !.tlb = 255, !.thb = 255,
                        !.tcr = 228, !.wcr = 252, !.kcr = 204]

ResetTimer == [vboy_timer_t EXCEPT !.count = 0]

\* vboy_palette(): every pen starts black
vboy_palette == [p \in 0..3 |-> 0]

\* no load of the counter is being followed
NoRun == [active |-> FALSE, L |-> 0, n |-> 0]

\* no walk of an object group has finished in this pass
NoWalk == [valid |-> FALSE, num |-> 0, cur_spt |-> 0, start_offs |-> 0,
           end_offs |-> 0, n |-> 0, last |-> 0]

\* no eye pass has been made
IdlePass ==
    [pc |-> "idle", made |-> FALSE, right |-> FALSE, walking |-> FALSE,
     i |-> 31, cur_spt |-> 3, start_offs |-> 0, end_offs |-> 0, obj_i |-> 0,
     visit |-> 0, n |-> 0, walked |-> {}, calls |-> {}, consumed |-> {},
     last_walk |-> NoWalk]

\* m_frame_count and m_row_num have no initializer and machine_reset() does
\* not set them: their first value is whatever the allocation holds.
FrameCountStart == {0, 1, 65535}

RowNumStart == {0, 28, 255}

\* the memories are make_unique_clear: every word reads 0 until written
ClearMem == [a \in {} |-> 0]

InitMachine ==
    /\ m_vip_regs = ResetVipRegs
    /\ m_vboy_regs = ResetVboyRegs
    /\ m_vboy_timer = ResetTimer
    /\ m_frame_count \in FrameCountStart
    /\ m_row_num \in RowNumStart
    /\ m_displayfb = 0
    /\ m_drawfb = 0
    /\ m_font = ClearMem
    /\ m_bgmap = ClearMem
    /\ m_maintimer = "never"
    /\ irq_line = [l \in {1, 4} |-> FALSE]
    /\ m_palette = vboy_palette
    /\ scanline = 0
    /\ pass = IdlePass
    /\ ret = 0
    /\ h_run = NoRun

----------------------------------------------------------------------------
(* VIP: interrupt line, register writes, scanline callback.                *)

\* m_set_irq: the new INTPND and the level of CPU line 4 it leaves.  The two
\* set_input_line calls are exclusive, so the line ends asserted exactly
\* when the first condition held.
SetIrqPnd(regs, irq_vector) == BitOr(regs.INTPND, irq_vector)

\* a variant that asserts the line but never clears it
SetIrqLine_NoClear(regs, irq_vector, line) ==
    IF BitAnd(regs.INTENB, SetIrqPnd(regs, irq_vector)) # 0 THEN TRUE ELSE line

SetIrqLine(regs, irq_vector, line) ==
    LET pnd == SetIrqPnd(regs, irq_vector)
        l1 == IF BitAnd(regs.INTENB, pnd) # 0 THEN TRUE ELSE line
    IN  IF BitAnd(regs.INTENB, pnd) = 0 THEN FALSE ELSE l1

\* m_set_irq as a state transformer on <<regs, line 4>>
m_set_irq(st, irq_vector) ==
    <<[st[1] EXCEPT !.INTPND = SetIrqPnd(st[1], irq_vector)],
      SetIrqLine(st[1], irq_vector, st[2])>>

\* m_set_brightness: the pens recomputed from BRTA, BRTB, BRTC (int arithmetic)
Clamp255(v) == IF v < 0 THEN 0 ELSE IF v > 255 THEN 255 ELSE v

\* a variant that adds up BRTB and BRTC without BRTA
BrightSum_NoBase(regs, k) ==
    IF k = 1 THEN regs.BRTA
    ELSE IF k = 2 THEN regs.BRTB
    ELSE regs.BRTB + regs.BRTC

\* the sum of plateaus pen k is computed from (uint16_t operands promoted
\* to int: at most 3 * 65535, and 255 times that is within an int)
BrightSum(regs, k) ==
    IF k = 1 THEN regs.BRTA
    ELSE IF k = 2 THEN regs.BRTA + regs.BRTB
    ELSE regs.BRTA + regs.BRTB + regs.BRTC

m_set_brightness(regs, pal) ==
    LET a == IntDiv(255 * BrightSum(regs, 1), 128)
        b == IntDiv(255 * BrightSum(regs, 2), 128)
        c == IntDiv(255 * BrightSum(regs, 3), 128)
    IN  [pal EXCEPT ![1] = Clamp255(a), ![2] = Clamp255(b), ![3] = Clamp255(c)]

\* byte offsets (offset << 1) of the VIP registers
INTPND_REG == 0
INTENB_REG == 2
INTCLR_REG == 4
DPSTTS_REG == 32
DPCTRL_REG == 34
BRTA_REG == 36
BRTB_REG == 38
BRTC_REG == 40
REST_REG == 42
FRMCYC_REG == 46
CTA_REG == 48
XPSTTS_REG == 64
XPCTRL_REG == 66
VER_REG == 68
SPT0_REG == 72
GPLT0_REG == 96
JPLT0_REG == 104
BKCOL_REG == 112

\* INTPND &= 0xe000: what a display reset leaves pending
DprstKeep(pnd) == BitAnd(pnd, 57344)

\* a variant that clears the same interrupts as the display reset
XprstKeep_High(pnd) == BitAnd(pnd, 57344)

\* INTPND &= 0x1fff: what a pixel processor reset leaves pending
XprstKeep(pnd) == BitAnd(pnd, 8191)

\* a variant that stores what is written to INTPND
IgnoredWrite_StoresPending(regs, reg, data) ==
    IF reg = INTPND_REG THEN [regs EXCEPT !.INTPND = data] ELSE regs

\* the registers after a write that only logs or does nothing: INTPND,
\* DPSTTS, XPSTTS, VER and the default case
IgnoredWrite(regs, reg, data) == regs

\* a variant that stores all sixteen bits
SptStored_Unmasked(data) == data

\* m_vip_regs.SPT[...] = data & 0x3ff
SptStored(data) == BitAnd(data, 1023)

\* vip_w: <<m_vip_regs, CPU line 4, pens>> after the write of data to reg
vip_w_regs(reg, data) ==
    LET r == m_vip_regs
        keep == <<r, irq_line[4], m_palette>>
        irq(rr) == LET st == m_set_irq(<<rr, irq_line[4]>>, 0)
                   IN  <<st[1], st[2], m_palette>>
        brt(rr) == <<rr, irq_line[4], m_set_brightness(rr, m_palette)>>
        plain(rr) == <<rr, irq_line[4], m_palette>>
    IN  CASE reg = INTENB_REG -> irq([r EXCEPT !.INTENB = data])
          [] reg = INTCLR_REG -> irq([r EXCEPT !.INTPND = AndNot16(r.INTPND, data)])
          [] reg = DPCTRL_REG ->
                LET r1 == [r EXCEPT !.DPCTRL = BitAnd(data, 1794)]
                IN  IF BitAnd(data, 1) # 0
                    THEN irq([r1 EXCEPT !.INTPND = DprstKeep(r1.INTPND)])
                    ELSE plain(r1)
          [] reg = BRTA_REG -> brt([r EXCEPT !.BRTA = data])
          [] reg = BRTB_REG -> brt([r EXCEPT !.BRTB = data])
          [] reg = BRTC_REG -> brt([r EXCEPT !.BRTC = data])
          [] reg = REST_REG -> brt([r EXCEPT !.REST = data])
          [] reg = FRMCYC_REG -> plain([r EXCEPT !.FRMCYC = data])
          [] reg = CTA_REG -> plain([r EXCEPT !.CTA = data])
          [] reg = XPCTRL_REG ->
                LET r1 == [r EXCEPT !.XPCTRL = BitAnd(data, 7938)]
                IN  IF BitAnd(data, 1) # 0
                    THEN irq([r1 EXCEPT !.INTPND = XprstKeep(r1.INTPND)])
                    ELSE plain(r1)
          [] reg \in {SPT0_REG + 2 * k : k \in 0..3} ->
                plain([r EXCEPT !.SPT[(reg - SPT0_REG) \div 2] = SptStored(data)])
          [] reg \in {GPLT0_REG + 2 * k : k \in 0..3} ->
                plain([r EXCEPT !.GPLT[(reg - GPLT0_REG) \div 2] = data])
          [] reg \in {JPLT0_REG + 2 * k : k \in 0..3} ->
                plain([r EXCEPT !.JPLT[(reg - JPLT0_REG) \div 2] = BitAnd(data, 252)])
          [] reg = BKCOL_REG -> plain([r EXCEPT !.BKCOL = BitAnd(data, 3)])
          \* INTPND, DPSTTS, XPSTTS, VER and unmapped offsets: logged, no effect
          [] OTHER -> plain(IgnoredWrite(r, reg, data))

vip_w(reg, data) ==
    LET st == vip_w_regs(reg, data)
    IN  /\ m_vip_regs' = st[1]
        /\ irq_line' = [irq_line EXCEPT ![4] = st[2]]
        /\ m_palette' = st[3]
        /\ ret' = 0
        /\ UNCHANGED <<m_vboy_regs, m_vboy_timer, m_frame_count, m_displayfb,
                       m_drawfb, m_row_num, m_font, m_bgmap, m_maintimer,
                       scanline, pass, h_run>>

\* total raster height: set_raw(..., 264, 0, 224)
ScreenHeight == 264

\* if(m_frame_count > m_vip_regs.FRMCYC), on the incremented uint16_t counter
GameFrame(fc, frmcyc) == fc > frmcyc

\* a variant that leaves the displayed framebuffer as it is
FlipDisplay_Keep(dfb) == dfb

\* m_displayfb ^= 1
FlipDisplay(dfb) == BitXor(dfb, 1)

\* a variant that draws into the buffer pair being displayed
DrawBuffer_Swapped(dfb) == IF dfb # 0 THEN 2 ELSE 1

\* if(m_displayfb) m_drawfb = 1; else m_drawfb = 2;
DrawBuffer(dfb) == IF dfb # 0 THEN 1 ELSE 2

\* a variant that ends the drawing with the right buffer, at scanline 240
LeftBufferEnd_At240(sl) == sl = 240

\* if(scanline == 232)
LeftBufferEnd(sl) == sl = 232

\* m_scanline_tick(scanline, 0) as a state transformer on
\* <<regs, line 4, frame_count, displayfb, drawfb, row_num>>
ScanlineTick(mach, sl) ==
    LET row == BitAnd(sl \div 8, 31)
        r == mach[1]
        disp == BitAnd(r.DPCTRL, 2) # 0
        s0 == <<r, mach[2]>>
        s1 == IF sl = 0 /\ disp THEN m_set_irq(s0, 16) ELSE s0
        fc1 == IF sl = 0 THEN U16(mach[3] + 1) ELSE mach[3]
        game == sl = 0 /\ GameFrame(fc1, r.FRMCYC)
        s2 == IF game THEN m_set_irq(s1, 8) ELSE s1
        fc2 == IF game THEN 0 ELSE fc1
        dfb == IF sl = 0 /\ disp THEN FlipDisplay(mach[4]) ELSE mach[4]
        dr1 == IF sl = 224 THEN DrawBuffer(dfb) ELSE mach[5]
        s3 == IF sl = 224 THEN m_set_irq(s2, 16384) ELSE s2
        dr2 == IF LeftBufferEnd(sl) THEN 0 ELSE dr1
        s4 == IF LeftBufferEnd(sl) THEN m_set_irq(s3, 2) ELSE s3
        s5 == IF sl = 240 THEN m_set_irq(s4, 4) ELSE s4
        s6 == IF row = Shr(BitAnd(s5[1].XPCTRL, 7936), 8)
              THEN m_set_irq(s5, 8192) ELSE s5
    IN  <<s6[1], s6[2], fc2, dfb, dr2, row>>

\* m_scanline_tick(scanline, 0) on the machine's state
m_scanline_tick(sl) ==
    ScanlineTick(<<m_vip_regs, irq_line[4], m_frame_count, m_displayfb,
                   m_drawfb, m_row_num>>, sl)

\* the scanline timer's callback, delivered once per scanline in raster order
vboy_scanlineL ==
    LET st == m_scanline_tick(scanline)
    IN  /\ pass.pc = "idle"
        /\ m_vip_regs' = st[1]
        /\ irq_line' = [irq_line EXCEPT ![4] = st[2]]
        /\ m_frame_count' = st[3]
        /\ m_displayfb' = st[4]
        /\ m_drawfb' = st[5]
        /\ m_row_num' = st[6]
        /\ scanline' = (scanline + 1) % ScreenHeight
        /\ ret' = 0
        /\ UNCHANGED <<m_vboy_regs, m_vboy_timer, m_font, m_bgmap, m_maintimer,
                       m_palette, pass, h_run>>

\* the VIP register writes the interrupt properties are checked with
VipIrqWrites ==
    {<<INTPND_REG, 65535>>,
     <<INTENB_REG, 0>>, <<INTENB_REG, 16>>, <<INTENB_REG, 24576>>,
     <<INTCLR_REG, 16>>, <<INTCLR_REG, 65535>>,
     <<DPCTRL_REG, 0>>, <<DPCTRL_REG, 3>>,
     <<XPCTRL_REG, 1>>}

VipWrite == \E w \in VipIrqWrites : vip_w(w[1], w[2])

NextVip == VipWrite \/ vboy_scanlineL

SpecVip == InitMachine /\ [][NextVip]_vars

----------------------------------------------------------------------------
(* I/O registers and the programmable timer.                               *)

\* byte offsets (offset << 2) of the I/O registers
KLB_REG == 16
KHB_REG == 20
TLB_REG == 24
THB_REG == 28
TCR_REG == 32
WCR_REG == 36
KCR_REG == 40

\* the period m_maintimer->adjust() arms for a rate bit
TimerPeriod(rate) == IF rate # 0 THEN "20us" ELSE "100us"

\* a variant that lets the written bit 1 through
TcrStored_Bit1Writable(data, tcr) ==
    LET t == BitOr(BitOr(BitAnd(data, 255), 228), BitAnd(tcr, 2))
    IN  IF BitAnd(data, 4) # 0 THEN BitAnd(t, 253) ELSE t

\* io_w, TCR: the stored control register
TcrStored(data, tcr) ==
    LET t == BitOr(BitOr(BitAnd(data, 253), 228), BitAnd(tcr, 2))
    IN  IF BitAnd(data, 4) # 0 THEN BitAnd(t, 253) ELSE t

\* a variant that arms the tick on every write with the enable bit
TcrArm_EveryEnable(data, tcr, timer) ==
    IF BitAnd(data, 1) # 0 THEN TimerPeriod(BitAnd(data, 16)) ELSE timer

\* io_w, TCR: what becomes of m_maintimer
TcrArm(data, tcr, timer) ==
    IF BitAnd(data, 1) # 0 /\ BitAnd(tcr, 1) = 0
    THEN TimerPeriod(BitAnd(data, 16))
    ELSE timer

\* a variant that never deasserts the line
TcrLine_Keep(data, line) == line

\* io_w, TCR: what becomes of CPU line 1
TcrLine(data, line) == IF BitAnd(data, 8) = 0 THEN FALSE ELSE line

\* io_w: <<m_vboy_regs, m_vboy_timer, m_maintimer, CPU line 1>> after the
\* write of data to reg; input is what ioport("INPUT") reads
io_w_regs(reg, data, input) ==
    LET r == m_vboy_regs
        t == m_vboy_timer
        keep == <<r, t, m_maintimer, irq_line[1]>>
    IN  CASE reg = TLB_REG ->
                LET tlb == U8(data)
                IN  <<[r EXCEPT !.tlb = tlb],
                      [t EXCEPT !.latch = BitOr(tlb, BitAnd(t.latch, 65280))],
                      m_maintimer, irq_line[1]>>
          [] reg = THB_REG ->
                LET thb == U8(data)
                IN  <<[r EXCEPT !.thb = thb],
                      [t EXCEPT !.latch = BitOr(Shl(thb, 8), BitAnd(t.latch, 255))],
                      m_maintimer, irq_line[1]>>
          [] reg = TCR_REG ->
                LET load == BitAnd(data, 1) # 0
                    r1 == IF load
                          THEN [r EXCEPT !.tlb = BitAnd(t.latch, 255),
                                         !.thb = Shr(t.latch, 8)]
                          ELSE r
                    t1 == IF load THEN [t EXCEPT !.count = t.latch] ELSE t
                IN  <<[r1 EXCEPT !.tcr = TcrStored(data, r.tcr)], t1,
                      TcrArm(data, r.tcr, m_maintimer),
                      TcrLine(data, irq_line[1])>>
          [] reg = WCR_REG ->
                <<[r EXCEPT !.wcr = BitOr(data, 252)], t, m_maintimer, irq_line[1]>>
          [] reg = KCR_REG ->
                LET r1 == IF BitAnd(data, 4) # 0
                          THEN [r EXCEPT !.klb = BitAnd(input, 255),
                                         !.khb = Shr(BitAnd(input, 65280), 8)]
                          ELSE r
                    r2 == IF BitAnd(data, 1) # 0
                          THEN [r1 EXCEPT !.klb = 0, !.khb = 0]
                          ELSE r1
                IN  <<[r2 EXCEPT !.kcr = BitAnd(BitOr(data, 72), 253)],
                      t, m_maintimer, irq_line[1]>>
          \* LPR, KLB, KHB are read only; the link port is not emulated
          [] OTHER -> keep

\* history: a TCR write that loads a latch >= 1 while the zero flag is clear
\* starts a run; any other write to TLB, THB or TCR ends the run being followed
RunAfterWrite(reg, data) ==
    IF reg = TCR_REG /\ BitAnd(data, 1) # 0 /\ m_vboy_timer.latch >= 1
       /\ BitAnd(m_vboy_regs.tcr, 2) = 0
    THEN [active |-> TRUE, L |-> m_vboy_timer.latch, n |-> 0]
    ELSE IF reg \in {TLB_REG, THB_REG, TCR_REG} THEN NoRun ELSE h_run

io_w(reg, data, input) ==
    LET st == io_w_regs(reg, data, input)
    IN  /\ m_vboy_regs' = st[1]
        /\ m_vboy_timer' = st[2]
        /\ m_maintimer' = st[3]
        /\ irq_line' = [irq_line EXCEPT ![1] = st[4]]
        /\ ret' = 0
        /\ h_run' = RunAfterWrite(reg, data)
        /\ UNCHANGED <<m_vip_regs, m_frame_count, m_displayfb, m_drawfb,
                       m_row_num, m_font, m_bgmap, m_palette, scanline, pass>>

\* m_timer_tick: the counter after the guarded decrement
TickCount(t) == IF t.count > 0 THEN t.count - 1 ELSE t.count

\* a variant that takes the counter for expired one tick early
TickZero_OffByOne(c) == c <= 1

\* m_timer_tick: whether the decremented counter has expired
TickZero(c) == c = 0

\* a variant that leaves the expired counter at zero
TickReload_None(t) == 0

\* m_timer_tick: the value an expired counter is reloaded with
TickReload(t) == t.latch

\* m_timer_tick: <<m_vboy_regs, m_vboy_timer, m_maintimer, CPU line 1>>
m_timer_tick ==
    LET r == m_vboy_regs
        t == m_vboy_timer
        c1 == TickCount(t)
        r1 == IF t.count > 0
              THEN [r EXCEPT !.tlb = BitAnd(c1, 255), !.thb = Shr(c1, 8)]
              ELSE r
        zero == TickZero(c1)
        t2 == IF zero THEN [t EXCEPT !.count = TickReload(t)]
                      ELSE [t EXCEPT !.count = c1]
        r2 == IF zero THEN [r1 EXCEPT !.tcr = BitOr(r1.tcr, 2)] ELSE r1
        line == IF zero /\ BitAnd(r2.tcr, 8) # 0 THEN TRUE ELSE irq_line[1]
    IN  <<r2, t2, TimerPeriod(BitAnd(r2.tcr, 16)), line>>

\* history: one more tick of the run being followed; a finished run is dropped
RunAfterTick ==
    IF h_run.active /\ h_run.n < h_run.L
    THEN [h_run EXCEPT !.n = h_run.n + 1]
    ELSE NoRun

\* the callback of m_maintimer, delivered while the timer is armed
timer_main_tick ==
    LET st == m_timer_tick
    IN  /\ m_maintimer # "never"
        /\ m_vboy_regs' = st[1]
        /\ m_vboy_timer' = st[2]
        /\ m_maintimer' = st[3]
        /\ irq_line' = [irq_line EXCEPT ![1] = st[4]]
        /\ ret' = 0
        /\ h_run' = RunAfterTick
        /\ UNCHANGED <<m_vip_regs, m_frame_count, m_displayfb, m_drawfb,
                       m_row_num, m_font, m_bgmap, m_palette, scanline, pass>>

\* the I/O writes the timer properties are checked with
MaxTlb == 4

TlbData == 0..MaxTlb \cup {258}

\* the timer properties keep the latch in the low byte: every value written to
\* THB has a zero low byte, which is all the uint8_t register keeps
ThbData == {0, 256}

TcrData == {0, 1, 2, 5, 9, 14, 281}

TimerWrites ==
    ({TLB_REG} \X TlbData) \cup ({THB_REG} \X ThbData) \cup ({TCR_REG} \X TcrData)
    \cup {<<WCR_REG, 1>>, <<KLB_REG, 255>>}

IoWrite == \E w \in TimerWrites : io_w(w[1], w[2], 2)

NextTimer == IoWrite \/ timer_main_tick

\* the I/O handlers neither read nor write the two uninitialized VIP fields:
\* one value of each stands for all
InitTimer == InitMachine /\ m_frame_count = 0 /\ m_row_num = 0

SpecTimer == InitTimer /\ [][NextTimer]_vars

----------------------------------------------------------------------------
(* Character (font) memory and the bus windows that write it.              *)

\* m_font[a] and m_bgmap[a]: a word never written still holds the 0 of
\* make_unique_clear
Load(mem, a) == IF a \in DOMAIN mem THEN mem[a] ELSE 0

Store(mem, a, v) == [x \in DOMAIN mem \cup {a} |-> IF x = a THEN v ELSE mem[x]]

READ_FONT(roffs) == Load(m_font, BitAnd(roffs, 131071))

\* COMBINE_DATA: the bits of data under mem_mask replace those of old
COMBINE_DATA(old, data, mem_mask) ==
    BitOr(BitAnd(old, 65535 - mem_mask), BitAnd(data, mem_mask))

\* bitswap<16>(val, b[1], ..., b[16]): bit 16-k of the result is bit b[k] of val
RECURSIVE bitswap16(_, _, _)
bitswap16(val, b, k) ==
    IF k > 16 THEN 0
    ELSE Bit(val, b[k]) * (2 ^ (16 - k)) + bitswap16(val, b, k + 1)

\* a variant that exchanges the two bits of every pair where they are
FontSwap_AdjacentBits(dat) ==
    bitswap16(dat, <<14, 15, 12, 13, 10, 11, 8, 9, 6, 7, 4, 5, 2, 3, 0, 1>>, 1)

\* WRITE_FONT: the word stored in the flip x mirrors
FontSwap(dat) ==
    bitswap16(dat, <<1, 0, 3, 2, 5, 4, 7, 6, 9, 8, 11, 10, 13, 12, 15, 14>>, 1)

\* a variant that stores the flip y copies at the row they came from
FlipRow_Same(a) == a

\* WRITE_FONT: the index of the flip y mirrors, (...) ^ 7
FlipRow(a) == BitXor(a, 7)

\* a variant that keeps no copy for character numbers with bit 11 set
UnusedBitCopy_None(a) == a

\* WRITE_FONT: the second copy of each bank, 0x4000 words up
UnusedBitCopy(a) == a + 16384

\* WRITE_FONT(woffs): m_font after the eight stores
WRITE_FONT(font, woffs, data, mem_mask) ==
    LET dat == COMBINE_DATA(Load(font, woffs), data, mem_mask)
        f0 == Store(font, woffs, dat)
        f1 == Store(f0, UnusedBitCopy(woffs), dat)
        f2 == Store(f1, FlipRow(woffs + 32768), dat)
        f3 == Store(f2, FlipRow(UnusedBitCopy(woffs + 32768)), dat)
        swp == FontSwap(dat)
        f4 == Store(f3, woffs + 65536, swp)
        f5 == Store(f4, UnusedBitCopy(woffs + 65536), swp)
        f6 == Store(f5, FlipRow(woffs + 98304), swp)
    IN  Store(f6, FlipRow(UnusedBitCopy(woffs + 98304)), swp)

\* vboy_mem: the eight character windows, <<first byte, last byte, bank>>;
\* bank k is font<k>_w, which writes at offset + k * 0x1000
FontWindows ==
    {<<24576, 32767, 0>>, <<57344, 65535, 1>>, <<90112, 98303, 2>>,
     <<122880, 131071, 3>>, <<491520, 499711, 0>>, <<499712, 507903, 1>>,
     <<507904, 516095, 2>>, <<516096, 524287, 3>>}

\* the word offset a 16-bit write at byte address addr reaches in m_font
FontWord(addr) ==
    LET win == CHOOSE x \in FontWindows : x[1] <= addr /\ addr <= x[2]
    IN  (addr - win[1]) \div 2 + win[3] * 4096

\* a 16-bit bus write into a character window: font0_w .. font3_w
font_w(addr, data, mem_mask) ==
    /\ \E x \in FontWindows : x[1] <= addr /\ addr <= x[2]
    /\ m_font' = WRITE_FONT(m_font, FontWord(addr), data, mem_mask)
    /\ ret' = 0
    /\ UNCHANGED <<m_vip_regs, m_vboy_regs, m_vboy_timer, m_frame_count,
                   m_displayfb, m_drawfb, m_row_num, m_bgmap, m_maintimer,
                   irq_line, m_palette, scanline, pass, h_run>>

\* the character writes exercised, <<byte address, data, mem_mask>>: every
\* window, the three byte masks, both rows 0 and 7 of tile 0
FontWrites ==
    {<<24576, 43690, 65535>>, <<24576, 7140, 255>>, <<491520, 7140, 65280>>,
     <<24590, 7140, 65535>>, <<491534, 43690, 65280>>,
     <<57350, 7140, 65535>>, <<499718, 228, 255>>,
     <<98302, 32769, 65535>>, <<516094, 43690, 255>>,
     <<131056, 228, 65535>>, <<524272, 7140, 65280>>}

FontWrite == \E w \in FontWrites : font_w(w[1], w[2], w[3])

NextFont == FontWrite

\* the character handlers read and write m_font alone
InitFont == InitMachine /\ m_frame_count = 0 /\ m_row_num = 0

SpecFont == InitFont /\ [][NextFont]_vars

----------------------------------------------------------------------------
(* VIPC memory and the background-map sampler.                             *)

READ_BGMAP(bgoffs) == Load(m_bgmap, BitAnd(bgoffs, 65535))

READ_WORLD(wldoffs) == READ_BGMAP(60416 + wldoffs)

READ_OBJECTS(wldoffs) == READ_BGMAP(61440 + wldoffs)

\* vboy_bgmap_w: data is stored over the bits the mask leaves out
vboy_bgmap_w(offset, data, mem_mask) ==
    /\ m_bgmap' = Store(m_bgmap, offset,
                        BitOr(data, BitAnd(Load(m_bgmap, offset),
                                           BitXor(mem_mask, 65535))))
    /\ ret' = 0
    /\ UNCHANGED <<m_vip_regs, m_vboy_regs, m_vboy_timer, m_frame_count,
                   m_displayfb, m_drawfb, m_row_num, m_font, m_maintimer,
                   irq_line, m_palette, scanline, pass, h_run>>

\* a variant that keeps two bits of the segment step
SegmentStep_TwoBits(t) == Shr(BitAnd(t, 192), 6)

\* (x & 0x1c0) >> 6: the 64-tile segment a tile coordinate lies in
SegmentStep(t) == Shr(BitAnd(t, 448), 6)

\* get_bg_map_pixel: the word offset of the map entry fetched
BgMapOffset(num, xpos, ypos) ==
    LET y == Shr(ypos, 3)
        x == Shr(xpos, 3)
        stepx == U8(SegmentStep(x))
        stepy == U8(SegmentStep(y) * (stepx + 1))
    IN  BitAnd(x, 63) + 64 * BitAnd(y, 63) + (num + stepx + stepy) * 4096

\* the 2-bit value of column xi of a character row
TileDat(data, xi) == BitAnd(Shr(data, Shl(xi, 1)), 3)

\* a variant that shifts the palette by dat, not by two bits per colour
PixelColour_ShiftDat(pal, dat) == BitAnd(Shr(pal, dat), 3)

\* the colour a palette register gives a nonzero tile value
PixelColour(pal, dat) == BitAnd(Shr(pal, dat * 2), 3)

get_bg_map_pixel(num, xpos, ypos) ==
    LET val == READ_BGMAP(BgMapOffset(num, xpos, ypos))
        pal == m_vip_regs.GPLT[BitAnd(Shr(val, 14), 3)]
        code == BitAnd(val, 16383)
        yi == BitAnd(ypos, 7)
        data == READ_FONT(code * 8 + yi)
        xi == BitAnd(xpos, 7)
        dat == TileDat(data, xi)
    IN  IF dat = 0 THEN -1 ELSE PixelColour(pal, dat)

\* one call of the sampler, as draw_bg_map and draw_affine_map make it with
\* masked source coordinates
sample_bgmap_pixel(num, xpos, ypos) ==
    /\ ret' = get_bg_map_pixel(num, xpos, ypos)
    /\ UNCHANGED <<m_vip_regs, m_vboy_regs, m_vboy_timer, m_frame_count,
                   m_displayfb, m_drawfb, m_row_num, m_font, m_bgmap,
                   m_maintimer, irq_line, m_palette, scanline, pass, h_run>>

\* the writes that set the sampler's scene: map entries, character rows and
\* palettes
PixelMapWrites ==
    {<<0, 24576, 65535>>, <<0, 53248, 65535>>, <<0, 0, 65280>>,
     <<8256, 16896, 65535>>}

PixelFontWrites ==
    {<<24576, 228, 65535>>, <<24590, 7140, 65535>>, <<57350, 7140, 65535>>}

PixelVipWrites == {<<GPLT0_REG, 228>>, <<GPLT0_REG + 2, 27>>, <<GPLT0_REG + 6, 65508>>}

\* <<segment, x, y>> of the samples taken
PixelInputs ==
    {<<0, 0, 0>>, <<0, 1, 0>>, <<0, 2, 0>>, <<0, 3, 0>>, <<0, 5, 7>>,
     <<0, 7, 7>>, <<1, 517, 11>>, <<1, 514, 11>>}

PixelMapWrite == \E w \in PixelMapWrites : vboy_bgmap_w(w[1], w[2], w[3])

PixelFontWrite == \E w \in PixelFontWrites : font_w(w[1], w[2], w[3])

PixelVipWrite == \E w \in PixelVipWrites : vip_w(w[1], w[2])

PixelSample == \E in \in PixelInputs : sample_bgmap_pixel(in[1], in[2], in[3])

NextPixel == PixelMapWrite \/ PixelFontWrite \/ PixelVipWrite \/ PixelSample

\* the sampler and the three writers leave the uninitialized VIP fields alone
InitPixel == InitMachine /\ m_frame_count = 0 /\ m_row_num = 0

SpecPixel == InitPixel /\ [][NextPixel]_vars

----------------------------------------------------------------------------
(* The world walker and the object walker of one eye pass.                 *)
(* A pass is followed loop iteration by loop iteration.  The output bitmap  *)
(* is not modelled: pass.calls records which drawing routine was called     *)
(* for which world.                                                         *)

\* the fields of a world's attribute word 0
WorldDef(num) == READ_WORLD(Shl(num, 4))

WorldLon(def) == BitAnd(Shr(def, 15), 1)

WorldRon(def) == BitAnd(Shr(def, 14), 1)

WorldMode(def) == BitAnd(Shr(def, 12), 3)

WorldOvr(def) == BitAnd(Shr(def, 7), 1)

\* a variant that takes the OVR bit for the END bit
WorldEnd_Bit7(def) == BitAnd(Shr(def, 7), 1)

WorldEnd(def) == BitAnd(Shr(def, 6), 1)

\* whether the world is switched on for the eye of this pass
WorldOn(def, right) ==
    (WorldLon(def) # 0 /\ ~right) \/ (WorldRon(def) # 0 /\ right)

\* a variant that walks the object table upwards
ObjNext_Up(i) == (i + 1) % 1024

\* i--; i &= 0x3ff on an int (the mask of a two's complement -1 is 0x3ff)
ObjNext(i) == (i - 1) % 1024

\* the pass before its first world: cur_spt = 3, i = 31
StartPass(right, walking) ==
    [pc |-> IF walking THEN "world" ELSE "idle", made |-> TRUE,
     right |-> right, walking |-> walking, i |-> 31, cur_spt |-> 3,
     start_offs |-> 0, end_offs |-> 0, obj_i |-> 0, visit |-> 0, n |-> 0,
     walked |-> {}, calls |-> {}, consumed |-> {}, last_walk |-> NoWalk]

\* screen_update_vboy_left / _right up to the first display_world: the fill,
\* and the return when the screen is off
screen_update(right) ==
    /\ pass.pc = "idle"
    /\ pass' = StartPass(right, BitAnd(m_vip_regs.DPCTRL, 2) # 0)
    /\ ret' = 0
    /\ UNCHANGED <<m_vip_regs, m_vboy_regs, m_vboy_timer, m_frame_count,
                   m_displayfb, m_drawfb, m_row_num, m_font, m_bgmap,
                   m_maintimer, irq_line, m_palette, scanline, h_run>>

\* the for loop of screen_update after display_world returned 0 for world
\* pass.i: the next world, or the end of the pass
NextWorld(p) ==
    IF p.i = 0
    THEN [p EXCEPT !.pc = "idle", !.walked = p.walked \cup {p.i}]
    ELSE [p EXCEPT !.pc = "world", !.walked = p.walked \cup {p.i}, !.i = p.i - 1]

\* a variant that ends the pass at the world that finds no group left
SptUnderflow_Stops(p) == [p EXCEPT !.pc = "idle"]

\* if(cur_spt == -1): the message and return 0, the walk goes on
SptUnderflow(p) == NextWorld(p)

\* display_world(pass.i) up to its return or to the first object
DisplayWorld(p) ==
    LET def == WorldDef(p.i)
        mode == WorldMode(def)
        ovr == IF WorldOvr(def) # 0 THEN {<<p.i, "fill_ovr_char">>} ELSE {}
        map == IF WorldOn(def, p.right) THEN {<<p.i, "draw_bg_map">>} ELSE {}
        aff == IF WorldOn(def, p.right) THEN {<<p.i, "draw_affine_map">>} ELSE {}
    IN  IF WorldEnd(def) # 0 THEN [p EXCEPT !.pc = "idle"]
        ELSE IF mode < 2
        THEN NextWorld([p EXCEPT !.calls = p.calls \cup ovr \cup map])
        ELSE IF mode = 2
        THEN NextWorld([p EXCEPT !.calls = p.calls \cup ovr \cup aff])
        ELSE IF p.cur_spt = -1 THEN SptUnderflow(p)
        ELSE [p EXCEPT !.pc = "obj",
                       !.start_offs = m_vip_regs.SPT[p.cur_spt],
                       !.end_offs = IF p.cur_spt # 0
                                    THEN m_vip_regs.SPT[p.cur_spt - 1]
                                    ELSE 1023,
                       !.obj_i = m_vip_regs.SPT[p.cur_spt],
                       !.n = 0]

display_world ==
    /\ pass.pc = "world"
    /\ pass' = DisplayWorld(pass)
    /\ ret' = IF WorldEnd(WorldDef(pass.i)) # 0 THEN 1 ELSE 0
    /\ UNCHANGED <<m_vip_regs, m_vboy_regs, m_vboy_timer, m_frame_count,
                   m_displayfb, m_drawfb, m_row_num, m_font, m_bgmap,
                   m_maintimer, irq_line, m_palette, scanline, h_run>>

\* a variant in which every Object world consumes its group
SptAfter_Always(cur_spt, on) == cur_spt - 1

\* if((lon && !right) || (ron && right)) cur_spt--;
SptAfter(cur_spt, on) == IF on THEN cur_spt - 1 ELSE cur_spt

\* one iteration of the do-while of display_world's OBJ mode, and after the
\* last one the rest of display_world
ObjectStep(p) ==
    LET start_ndx == U16(p.obj_i * 4)
        jlon == Shr(BitAnd(READ_OBJECTS(start_ndx + 1), 32768), 15)
        jron == Shr(BitAnd(READ_OBJECTS(start_ndx + 1), 16384), 14)
        put == IF (~p.right /\ jlon # 0) \/ (p.right /\ jron # 0)
               THEN {<<p.i, "put_obj">>} ELSE {}
        i1 == ObjNext(p.obj_i)
        p1 == [p EXCEPT !.calls = p.calls \cup put, !.visit = p.obj_i,
                        !.n = p.n + 1, !.obj_i = i1]
        on == WorldOn(WorldDef(p.i), p.right)
    IN  IF i1 # p.end_offs THEN p1
        ELSE NextWorld([p1 EXCEPT
                 !.cur_spt = SptAfter(p.cur_spt, on),
                 !.consumed = IF on THEN p.consumed \cup {p.i} ELSE p.consumed,
                 !.last_walk = [valid |-> TRUE, num |-> p.i,
                                cur_spt |-> p.cur_spt,
                                start_offs |-> p.start_offs,
                                end_offs |-> p.end_offs, n |-> p.n + 1,
                                last |-> p.obj_i]])

display_world_obj ==
    /\ pass.pc = "obj"
    /\ pass' = ObjectStep(pass)
    /\ ret' = 0
    /\ UNCHANGED <<m_vip_regs, m_vboy_regs, m_vboy_timer, m_frame_count,
                   m_displayfb, m_drawfb, m_row_num, m_font, m_bgmap,
                   m_maintimer, irq_line, m_palette, scanline, h_run>>

\* a memory holding the given words
MemOf(words) == [a \in {w[1] : w \in words} |->
                    (CHOOSE w \in words : w[1] = a)[2]]

\* attribute word 0 of world num, word 1 of object i
WorldWord(num, def) == <<60416 + 16 * num, def>>

ObjWord(i, w1) == <<61440 + 4 * i + 1, w1>>

\* the scenes walked: world tables with a few objects switched on.
\* End15: END at world 15, LON worlds above and below it.
\* Groups: one Object world more than there are groups, then an END world
\* that also carries LON, RON and the Object mode, then more worlds.
\* Mixed: Object worlds on for one eye or for none, Affine and HBias worlds
\* with OVR, no END.
\* End31: END at world 31.
WalkScenes ==
    {MemOf({WorldWord(30, 32768), WorldWord(15, 64), WorldWord(14, 32768),
            WorldWord(3, 61440)}),
     MemOf({WorldWord(31, 61440), WorldWord(29, 61440), WorldWord(28, 49152),
            WorldWord(27, 61440), WorldWord(26, 61440), WorldWord(25, 61440),
            WorldWord(10, 61504), WorldWord(9, 61440), WorldWord(8, 49152),
            ObjWord(2, 32768), ObjWord(5, 16384), ObjWord(1023, 49152)}),
     MemOf({WorldWord(31, 45056), WorldWord(30, 12288), WorldWord(29, 28672),
            WorldWord(28, 57472), WorldWord(27, 53376), WorldWord(2, 61440),
            WorldWord(1, 61440), WorldWord(0, 61440),
            ObjWord(0, 49152), ObjWord(3, 32768)}),
     MemOf({WorldWord(31, 49216), WorldWord(30, 61440)})}

\* the values of SPT[0..3] walked with: ordered groups, a group whose two
\* cursors are equal, cursors out of order, and the registers' reset value
WalkSpt ==
    {<<2, 5, 5, 1020>>, <<1023, 0, 3, 1>>, <<0, 0, 0, 0>>}

\* every scene and every SPT value is one that writes to VIPC memory and to
\* SPT0..SPT3 leave; DPCTRL is as reset leaves it or with the screen off
InitWalk ==
    /\ m_vip_regs \in
          {[ResetVipRegs EXCEPT !.SPT = [k \in 0..3 |-> spt[k + 1]],
                                !.DPCTRL = d] : spt \in WalkSpt, d \in {0, 2}}
    /\ m_vboy_regs = ResetVboyRegs
    /\ m_vboy_timer = ResetTimer
    /\ m_frame_count = 0
    /\ m_row_num = 0
    /\ m_displayfb = 0
    /\ m_drawfb = 0
    /\ m_font = ClearMem
    /\ m_bgmap \in WalkScenes
    /\ m_maintimer = "never"
    /\ irq_line = [l \in {1, 4} |-> FALSE]
    /\ m_palette = vboy_palette
    /\ scanline = 0
    /\ pass = IdlePass
    /\ ret = 0
    /\ h_run = NoRun

ScreenUpdate == \E right \in BOOLEAN : screen_update(right)

NextWalk == ScreenUpdate \/ display_world \/ display_world_obj

SpecWalk == InitWalk /\ [][NextWalk]_vars

----------------------------------------------------------------------------
(* Reads of the VIP registers.                                             *)

\* a variant that reports the two framebuffers the other way round
DpBusy_Swapped(dfb) == IF dfb = 0 THEN 48 ELSE 12

\* the DPBSY bits of DPSTTS: 0x0c for framebuffer 0, 0x30 for framebuffer 1
DpBusy(dfb) == IF dfb = 0 THEN 12 ELSE 48

\* a variant that answers an unknown offset with 0
UnknownRead_Zero(reg) == 0

\* the value vip_r returns after a break: INTCLR and the default case
UnknownRead(reg) == 65535

\* vip_r: the value read at byte offset reg (offset << 1) of the window
vip_r(reg) ==
    LET r == m_vip_regs
    IN  CASE reg = INTPND_REG -> r.INTPND
          [] reg = INTENB_REG -> r.INTENB
          [] reg = DPSTTS_REG ->
                LET res == BitAnd(r.DPCTRL, 1794)
                    res1 == IF BitAnd(r.DPCTRL, 2) # 0 /\ m_row_num < 224 \div 8
                            THEN BitOr(res, DpBusy(m_displayfb)) ELSE res
                IN  BitOr(res1, 64)
          [] reg = DPCTRL_REG -> r.DPCTRL
          [] reg = BRTA_REG -> r.BRTA
          [] reg = BRTB_REG -> r.BRTB
          [] reg = BRTC_REG -> r.BRTC
          [] reg = REST_REG -> r.REST
          [] reg = FRMCYC_REG -> r.FRMCYC
          [] reg = CTA_REG -> r.CTA
          [] reg = XPSTTS_REG ->
                LET res == BitOr(BitAnd(r.XPSTTS, 243), U16(Shl(m_drawfb, 2)))
                IN  IF m_row_num < 224 \div 8
                    THEN BitOr(BitOr(res, 32768), U16(Shl(m_row_num, 8)))
                    ELSE res
          [] reg = XPCTRL_REG -> r.XPCTRL
          [] reg = VER_REG -> r.VER
          [] reg \in {SPT0_REG + 2 * k : k \in 0..3} -> r.SPT[(reg - SPT0_REG) \div 2]
          [] reg \in {GPLT0_REG + 2 * k : k \in 0..3} -> r.GPLT[(reg - GPLT0_REG) \div 2]
          [] reg \in {JPLT0_REG + 2 * k : k \in 0..3} -> r.JPLT[(reg - JPLT0_REG) \div 2]
          [] reg = BKCOL_REG -> r.BKCOL
          \* INTCLR (logged) and every offset without a case
          [] OTHER -> UnknownRead(reg)

\* a CPU read of the window: the value is handed back, nothing is stored
vip_read(reg) ==
    /\ ret' = vip_r(reg)
    /\ UNCHANGED <<m_vip_regs, m_vboy_regs, m_vboy_timer, m_frame_count,
                   m_displayfb, m_drawfb, m_row_num, m_font, m_bgmap,
                   m_maintimer, irq_line, m_palette, scanline, pass, h_run>>

\* the offsets read: registers with a case of their own, the write-only
\* INTCLR, the holes of the window and its last word
VipReads == {INTENB_REG, INTCLR_REG, DPSTTS_REG, 6, 44, 126}

\* the byte offsets of the window 0x5f800-0x5f87f that vip_r gives a case
\* which returns a register
ReadableRegs ==
    {INTPND_REG, INTENB_REG, DPSTTS_REG, DPCTRL_REG, BRTA_REG, BRTB_REG,
     BRTC_REG, REST_REG, FRMCYC_REG, CTA_REG, XPSTTS_REG, XPCTRL_REG, VER_REG,
     BKCOL_REG}
      \cup {SPT0_REG + 2 * k : k \in 0..3}
      \cup {GPLT0_REG + 2 * k : k \in 0..3}
      \cup {JPLT0_REG + 2 * k : k \in 0..3}

\* the writes made between the reads: the display switched off and on,
\* interrupts enabled
VipReadWrites == {<<DPCTRL_REG, 0>>, <<DPCTRL_REG, 770>>, <<INTENB_REG, 16>>}

VipRead == \E reg \in VipReads : vip_read(reg)

VipReadWrite == \E w \in VipReadWrites : vip_w(w[1], w[2])

NextRead == VipRead \/ VipReadWrite \/ vboy_scanlineL

InitRead == InitMachine /\ m_frame_count = 0

SpecRead == InitRead /\ [][NextRead]_vars

----------------------------------------------------------------------------
(* Reads of the I/O registers and the keypad.                              *)

\* io_r: the value read at byte offset reg (offset << 2)
io_r(reg) ==
    LET r == m_vboy_regs
    IN  CASE reg = KLB_REG -> r.klb
          [] reg = KHB_REG -> r.khb
          [] reg = TLB_REG -> r.tlb
          [] reg = THB_REG -> r.thb
          [] reg = TCR_REG -> r.tcr
          [] reg = WCR_REG -> r.wcr
          [] reg = KCR_REG -> BitOr(r.kcr, 76)
          \* the link port and every other offset: logged, value stays 0
          [] OTHER -> 0

\* a CPU read of the I/O window: the value is handed back, nothing is stored
io_read(reg) ==
    /\ ret' = io_r(reg)
    /\ UNCHANGED <<m_vip_regs, m_vboy_regs, m_vboy_timer, m_frame_count,
                   m_displayfb, m_drawfb, m_row_num, m_font, m_bgmap,
                   m_maintimer, irq_line, m_palette, scanline, pass, h_run>>

\* what the INPUT port reads as: bit 1 is IP_ACTIVE_LOW and unused, so it is
\* always 1; no button, A, B, A with Start, every button with battery low
KeypadInputs == {2, 6, 10, 4102, 65535}

\* the values written to KCR: nothing, clear, sample, sample with clear,
\* sample with the unused and the read-only bits, and sample with bit 5
KcrData == {0, 1, 4, 5, 134, 36}

\* the offsets read: every register with a case of its own and the link port
IoReads == {KLB_REG, KHB_REG, TLB_REG, THB_REG, TCR_REG, WCR_REG, KCR_REG, 0}

KcrWrite == \E data \in KcrData, input \in KeypadInputs : io_w(KCR_REG, data, input)

IoRead == \E reg \in IoReads : io_read(reg)

NextKeypad == KcrWrite \/ IoRead

InitKeypad == InitMachine /\ m_frame_count = 0 /\ m_row_num = 0

SpecKeypad == InitKeypad /\ [][NextKeypad]_vars

----------------------------------------------------------------------------
(* The reset bits of DPCTRL and XPCTRL.                                    *)

\* moments of the first frame after reset, as <<INTPND, next scanline,
\* m_displayfb, m_drawfb, m_row_num>>: before the first tick, after the tick
\* of scanline 0 (FRAME_START, GAME_START, SB_HIT) and after the tick of
\* scanline 240 (XP_END, LFB_END and RFB_END as well)
FrameMoments == {<<0, 0, 0, 0, 0>>, <<8216, 1, 1, 0, 0>>, <<24606, 241, 1, 0, 30>>}

\* the values INTENB was written with meanwhile
CtrlEnables == {0, 16, 24576}

\* the values written to DPCTRL and XPCTRL: with the reset bit and without,
\* with no other bit and with every other bit
CtrlData == {0, 1, 2, 3, 65534, 65535}

DpctrlWrite == \E data \in CtrlData : vip_w(DPCTRL_REG, data)

XpctrlWrite == \E data \in CtrlData : vip_w(XPCTRL_REG, data)

\* the offsets written that have no storing case: the read-only registers,
\* two holes of the window and its last word
IgnoredRegs == {INTPND_REG, DPSTTS_REG, XPSTTS_REG, VER_REG, 6, 44, 126}

IgnoredWriteData == {0, 1, 65535}

VipIgnoredWrite ==
    \E reg \in IgnoredRegs, data \in IgnoredWriteData : vip_w(reg, data)

NextCtrl == DpctrlWrite \/ XpctrlWrite \/ VipIgnoredWrite

InitCtrl ==
    /\ \E fm \in FrameMoments, enb \in CtrlEnables :
          /\ m_vip_regs = [ResetVipRegs EXCEPT !.INTPND = fm[1], !.INTENB = enb]
          /\ irq_line = [l \in {1, 4} |-> l = 4 /\ BitAnd(enb, fm[1]) # 0]
          /\ scanline = fm[2]
          /\ m_displayfb = fm[3]
          /\ m_drawfb = fm[4]
          /\ m_row_num = fm[5]
    /\ m_vboy_regs = ResetVboyRegs
    /\ m_vboy_timer = ResetTimer
    /\ m_frame_count = 0
    /\ m_font = ClearMem
    /\ m_bgmap = ClearMem
    /\ m_maintimer = "never"
    /\ m_palette = vboy_palette
    /\ pass = IdlePass
    /\ ret = 0
    /\ h_run = NoRun

SpecCtrl == InitCtrl /\ [][NextCtrl]_vars

----------------------------------------------------------------------------
(* The frame counter, tick by tick.                                        *)

\* the frame counter is followed up to this count; a wrap of the uint16_t
\* counter from 0xFFFF to 0 is always followed
MaxFrameCount == 3

\* the scanline timer's callback while the frame counter is being followed
FrameScanline ==
    /\ scanline # 0 \/ m_frame_count # MaxFrameCount
    /\ vboy_scanlineL

\* the game sets the frame cycle, acknowledges GAME_START and switches the
\* display on
FrameWrites ==
    {<<FRMCYC_REG, 1>>, <<FRMCYC_REG, 65535>>, <<INTCLR_REG, 8>>,
     <<DPCTRL_REG, 2>>}

FrameWrite == \E w \in FrameWrites : vip_w(w[1], w[2])

NextFrame == FrameScanline \/ FrameWrite

InitFrame == InitMachine /\ m_row_num = 0

SpecFrame == InitFrame /\ [][NextFrame]_vars

----------------------------------------------------------------------------
(* Writes to the VIPC memory, word by word.                                *)

\* the words written: a map entry, its neighbour, and the last word
MapOffsets == {0, 1, 65535}

\* the data the bus presents: lanes that the mask leaves out may carry bits
MapData == {0, 171, 4660, 65535}

\* the byte lanes a 16-bit access selects
MapMasks == {255, 65280, 65535}

MapWrite ==
    \E offset \in MapOffsets, data \in MapData, mem_mask \in MapMasks :
        vboy_bgmap_w(offset, data, mem_mask)

NextMap == MapWrite

InitMap == InitMachine /\ m_frame_count = 0 /\ m_row_num = 0

SpecMap == InitMap /\ [][NextMap]_vars

----------------------------------------------------------------------------
(* The sampler across the segments of a map array.                         *)

\* map entries in segments 0, 1, 4 and 15, each naming its own character
StepMapWrites ==
    {<<0, 1, 65535>>, <<4096, 3, 65535>>, <<16384, 2, 65535>>,
     <<65535, 1, 65535>>}

\* row 0 of characters 1, 2 and 3: pixel 0 holds the character's number
StepFontWrites ==
    {<<24592, 1, 65535>>, <<24608, 2, 65535>>, <<24624, 3, 65535>>}

\* <<segment, x, y>> with x and y masked to at most 4095: the first segment,
\* steps right and down, the last tile, and a segment sum past 15
StepInputs ==
    {<<0, 0, 0>>, <<0, 512, 0>>, <<0, 2048, 0>>, <<0, 0, 2048>>,
     <<1, 512, 512>>, <<0, 4088, 4088>>, <<12, 2048, 0>>, <<3, 1536, 0>>}

StepMapWrite == \E w \in StepMapWrites : vboy_bgmap_w(w[1], w[2], w[3])

StepFontWrite == \E w \in StepFontWrites : font_w(w[1], w[2], w[3])

StepVipWrite == vip_w(GPLT0_REG, 228)

StepSample == \E in \in StepInputs : sample_bgmap_pixel(in[1], in[2], in[3])

NextStep == StepMapWrite \/ StepFontWrite \/ StepVipWrite \/ StepSample

InitStep == InitMachine /\ m_frame_count = 0 /\ m_row_num = 0

SpecStep == InitStep /\ [][NextStep]_vars

----------------------------------------------------------------------------
(* The source coordinates of the Affine mode.                              *)

\* (int16_t) of a 16-bit word
S16(v) == IF v >= 32768 THEN v - 65536 ELSE v

\* a float holds 24 significant bits: the multiple of 1/512 nearest to n/512
\* that a float can hold, ties to the even mantissa (n is in units of 1/512)
FloatRound(n) ==
    LET a == IF n < 0 THEN -n ELSE n
        e == CHOOSE k \in 0..7 : a < 2 ^ (24 + k) /\ (k = 0 \/ a >= 2 ^ (23 + k))
        q == a \div (2 ^ e)
        r == a % (2 ^ e)
        up == e > 0 /\ (2 * r > 2 ^ e \/ (2 * r = 2 ^ e /\ q % 2 = 1))
        m == (IF up THEN q + 1 ELSE q) * (2 ^ e)
    IN  IF n < 0 THEN -m ELSE m

\* a variant that takes the skew and parallax parameters as whole pixels
SkewUnits_Whole(raw) == 512 * raw

\* (int16_t)READ_BGMAP(...) / 8.0, in units of 1/512
SkewUnits(raw) == 64 * raw

\* draw_affine_map: <<src_x, src_y>> of column x of row y
AffineSource(param_base, y, x, right) ==
    LET param(k) == S16(READ_BGMAP(param_base + (y * 8 + k)))
        prlx == SkewUnits(param(1))
        h_skw == FloatRound(IF right THEN SkewUnits(param(0)) - prlx
                                     ELSE SkewUnits(param(0)) + prlx)
        v_skw == SkewUnits(param(2))
        h_scl == param(3)
        v_scl == param(4)
    IN  <<IntDiv(FloatRound(h_skw + FloatRound(h_scl * x)), 512),
          IntDiv(FloatRound(v_skw + FloatRound(v_scl * x)), 512)>>

\* one column of draw_affine_map up to the choice of the pixel's source:
\* the assignment of src_x, or that of src_y
affine_source(param_base, y, x, right, vertical) ==
    /\ ret' = AffineSource(param_base, y, x, right)[IF vertical THEN 2 ELSE 1]
    /\ UNCHANGED <<m_vip_regs, m_vboy_regs, m_vboy_timer, m_frame_count,
                   m_displayfb, m_drawfb, m_row_num, m_font, m_bgmap,
                   m_maintimer, irq_line, m_palette, scanline, pass, h_run>>

\* the parameter words of rows 0 and 1 at param_base 0, <<offset, data>>:
\* skews of 1, -1 and 1.5 pixels, a parallax of 2 pixels, a vertical skew of
\* -1/8, scales of 1, -1/2 and -1/512
AffineParamWrites ==
    {<<0, 8>>, <<0, 65528>>, <<0, 12>>, <<1, 16>>, <<2, 65535>>,
     <<3, 512>>, <<3, 65280>>, <<4, 65535>>, <<4, 256>>,
     <<8, 32767>>, <<11, 32767>>}

\* <<row, column, right eye, src_y or src_x>> of the coordinates followed
AffineInputs == {0, 1} \X {0, 1, 3, 383} \X BOOLEAN \X BOOLEAN

AffineParamWrite == \E w \in AffineParamWrites : vboy_bgmap_w(w[1], w[2], 65535)

AffineSample ==
    \E in \in AffineInputs : affine_source(0, in[1], in[2], in[3], in[4])

NextAffine == AffineParamWrite \/ AffineSample

InitAffine == InitMachine /\ m_frame_count = 0 /\ m_row_num = 0

SpecAffine == InitAffine /\ [][NextAffine]_vars

----------------------------------------------------------------------------
(* The object walk under writes to the group cursors.                     *)

\* the world table written: world 31 an Object world switched on for both
\* eyes, world 30 the end of the walk; group 3 runs from SPT[3] down to SPT[2]
SptSceneWrites == {<<60416 + 16 * 31, 61440>>, <<60416 + 16 * 30, 64>>}

\* the data written to SPT2 and SPT3: bits above bit 9 are set in two of them
SptData == {0, 1029, 65535}

\* the game writes the world table between two passes
SptSceneWrite ==
    /\ pass.pc = "idle"
    /\ \E w \in SptSceneWrites : vboy_bgmap_w(w[1], w[2], 65535)

\* the game moves a cursor between two passes
SptWrite ==
    /\ pass.pc = "idle"
    /\ \E k \in {2, 3}, data \in SptData : vip_w(SPT0_REG + 2 * k, data)

NextSpt ==
    SptSceneWrite \/ SptWrite \/ ScreenUpdate \/ display_world
    \/ display_world_obj

InitSpt == InitMachine /\ m_frame_count = 0 /\ m_row_num = 0

SpecSpt == InitSpt /\ [][NextSpt]_vars

\* a pass is one call of screen_update: its loops run until they return
SpecSptFair ==
    SpecSpt /\ WF_vars(display_world) /\ WF_vars(display_world_obj)

----------------------------------------------------------------------------
(* The brightness registers.                                                *)

\* the values written to BRTA, BRTB, BRTC and REST: zero, plateaus below and
\* at the full scale of 0x80, and the largest 16-bit value
BrtData == {0, 32, 64, 128, 65535}

BrightnessWrite ==
    \E reg \in {BRTA_REG, BRTB_REG, BRTC_REG, REST_REG}, data \in BrtData :
        vip_w(reg, data)

NextBright == BrightnessWrite

InitBright == InitMachine /\ m_frame_count = 0 /\ m_row_num = 0

SpecBright == InitBright /\ [][NextBright]_vars

----------------------------------------------------------------------------
\* the intensity the statement gives a pen whose plateaus add up to sum
C11_Pen(sum) == IF (255 * sum) \div 128 > 255 THEN 255 ELSE (255 * sum) \div 128

\* C11: after every write to BRTA, BRTB, BRTC or REST the pens satisfy
\* 0 <= pen1 <= pen2 <= pen3 <= 255 with pen1 = clamp(0xFF*BRTA/0x80),
\* pen2 = clamp(0xFF*(BRTA+BRTB)/0x80), pen3 = clamp(0xFF*(BRTA+BRTB+BRTC)/0x80),
\* the products staying within an int; pen 0 stays black and REST has no
\* influence on any pen.
C11_PensMonotone ==
    LET r == m_vip_regs
    IN  /\ 255 * (r.BRTA + r.BRTB + r.BRTC) <= 2147483647
        /\ m_palette[0] = 0
        /\ m_palette[1] = C11_Pen(r.BRTA)
        /\ m_palette[2] = C11_Pen(r.BRTA + r.BRTB)
        /\ m_palette[3] = C11_Pen(r.BRTA + r.BRTB + r.BRTC)
        /\ 0 <= m_palette[1] /\ m_palette[1] <= m_palette[2]
        /\ m_palette[2] <= m_palette[3] /\ m_palette[3] <= 255

\* three distinct intensities, the third clamped, with REST written
C11_Witness ==
    /\ m_vip_regs.BRTA = 64 /\ m_vip_regs.BRTB = 32
    /\ m_vip_regs.BRTC = 65535 /\ m_vip_regs.REST = 65535
    /\ m_palette = [p \in 0..3 |-> IF p = 0 THEN 0 ELSE IF p = 1 THEN 127
                                    ELSE IF p = 2 THEN 191 ELSE 255]

----------------------------------------------------------------------------
\* C1: in every reachable state CPU interrupt line 4 is asserted if and only
\* if (INTENB & INTPND) != 0: a pending interrupt that is not enabled does not
\* assert the line, and clearing the last enabled pending bit deasserts it.
C1_Line4IffEnabledPending ==
    irq_line[4] <=> (BitAnd(m_vip_regs.INTENB, m_vip_regs.INTPND) # 0)

\* interrupts are pending and some are enabled, but none of the pending ones:
\* the line is low
C1_Witness ==
    /\ m_vip_regs.INTPND # 0
    /\ m_vip_regs.INTENB # 0
    /\ BitAnd(m_vip_regs.INTENB, m_vip_regs.INTPND) = 0
    /\ ~irq_line[4]

----------------------------------------------------------------------------
\* C12: on every scanline-0 tick, if DPCTRL bit 1 is set FRAME_START (0x0010)
\* is added to INTPND and displayfb is toggled, and if it is clear FRAME_START
\* is not raised and displayfb is unchanged; no other scanline tick and no
\* register write changes displayfb.
C12_FlipOnScanline0 ==
    [][/\ (vboy_scanlineL /\ scanline = 0 /\ BitAnd(m_vip_regs.DPCTRL, 2) # 0) =>
             /\ BitAnd(m_vip_regs'.INTPND, 16) = 16
             /\ m_displayfb' = 1 - m_displayfb
       /\ (vboy_scanlineL /\ scanline = 0 /\ BitAnd(m_vip_regs.DPCTRL, 2) = 0) =>
             /\ BitAnd(m_vip_regs'.INTPND, 16) = BitAnd(m_vip_regs.INTPND, 16)
             /\ m_displayfb' = m_displayfb
       /\ (vboy_scanlineL /\ scanline # 0) => m_displayfb' = m_displayfb
       /\ (\E w \in VipIrqWrites : vip_w(w[1], w[2])) =>
             m_displayfb' = m_displayfb]_vars

\* the tick of scanline 0 has been delivered with DPCTRL bit 1 set: the
\* displayed framebuffer is now 1 and FRAME_START is pending
C12_Witness ==
    /\ scanline = 1
    /\ BitAnd(m_vip_regs.DPCTRL, 2) # 0
    /\ m_displayfb = 1
    /\ BitAnd(m_vip_regs.INTPND, 16) = 16

----------------------------------------------------------------------------
\* the tiles some word of which, in the normal bank or a mirror, was stored;
\* every other tile reads 0 in the bank and in all its mirrors
FontTilesStored == {(a % 16384) \div 8 : a \in DOMAIN m_font}

\* the word whose bits, listed from bit 15 down to bit 0, are bits
\* 1,0,3,2,5,4,7,6,9,8,11,10,13,12,15,14 of v
C2_PairList == <<1, 0, 3, 2, 5, 4, 7, 6, 9, 8, 11, 10, 13, 12, 15, 14>>

C2_bitswap_pairs(v) ==
    LET bit(i) == (v \div (2 ^ C2_PairList[16 - i])) % 2
        RECURSIVE sum(_)
        sum(i) == IF i < 0 THEN 0 ELSE bit(i) * (2 ^ i) + sum(i - 1)
    IN  sum(15)

\* C2: after any sequence of character writes, for every tile t and row r the
\* flip-y mirror word of (t, r) is the normal word of (t, 7-r), the flip-x
\* mirror word is bitswap_pairs of the normal word of (t, r), and the flip-xy
\* mirror word is bitswap_pairs of the normal word of (t, 7-r).
C2_MirrorsDerivable ==
    \A t \in FontTilesStored \cup {0, 2047} : \A r \in 0..7 :
        /\ Load(m_font, 32768 + 8 * t + r) = Load(m_font, 8 * t + (7 - r))
        /\ Load(m_font, 65536 + 8 * t + r)
           = C2_bitswap_pairs(Load(m_font, 8 * t + r))
        /\ Load(m_font, 98304 + 8 * t + r)
           = C2_bitswap_pairs(Load(m_font, 8 * t + (7 - r)))

\* rows 0 and 7 of tile 0 hold different nonzero words, one of them put
\* together from two byte writes
C2_Witness ==
    /\ Load(m_font, 0) = 7082
    /\ Load(m_font, 7) = 43748

\* v with the two bits of every adjacent pair exchanged
C3_AdjacentBitsExchanged(v) ==
    LET bit(i) == (v \div (2 ^ i)) % 2
        RECURSIVE sum(_)
        sum(i) == IF i > 7 THEN 0
                  ELSE bit(2 * i) * (2 ^ (2 * i + 1))
                       + bit(2 * i + 1) * (2 ^ (2 * i)) + sum(i + 1)
    IN  sum(0)

\* C3 as claimed: the flip-x read of every word w of the normal bank returns
\* the word with the two bits of each adjacent bit pair exchanged, so 0x5555
\* for 0xAAAA.
C3_FlipXExchangesAdjacentBits ==
    \A w \in {a \in DOMAIN m_font : a < 16384} :
        READ_FONT(w + 65536) = C3_AdjacentBitsExchanged(Load(m_font, w))

\* the 2-bit pixel at column x of a row word
C3_Pixel(v, x) == (v \div (4 ^ x)) % 4

\* C3 as amended: the flip-x read of every word w of the normal bank returns
\* the word with its eight 2-bit pixels in reverse order, each pixel keeping
\* its two bits in place; 0xAAAA reads back as 0xAAAA.
C3_FlipXReversesPixels ==
    \A w \in {a \in DOMAIN m_font : a < 16384} :
        /\ READ_FONT(w + 65536) \in 0..65535
        /\ \A x \in 0..7 :
              C3_Pixel(READ_FONT(w + 65536), x) = C3_Pixel(Load(m_font, w), 7 - x)
        /\ Load(m_font, w) = 43690 => READ_FONT(w + 65536) = 43690

\* 0xAAAA was written to word 0 of bank 0, and tile 512 holds a row whose
\* pixels are not a palindrome
C3_Witness ==
    /\ Load(m_font, 0) = 43690
    /\ READ_FONT(65536) = 43690
    /\ Load(m_font, 4099) = 7140

\* the stored TCR value the claim gives, bit by bit: bits 7, 6, 5 and 2 are
\* one, bit 1 is the previous bit 1 unless data bit 2 clears it, bits 4, 3 and
\* 0 are those of data
C4_Bit(i, data, prev) ==
    IF i \in {2, 5, 6, 7} THEN 1
    ELSE IF i = 1 THEN (IF Bit(data, 2) = 1 THEN 0 ELSE Bit(prev, 1))
    ELSE Bit(data, i)

C4_Expected(data, prev) ==
    C4_Bit(0, data, prev) + 2 * C4_Bit(1, data, prev) + 4 * C4_Bit(2, data, prev)
    + 8 * C4_Bit(3, data, prev) + 16 * C4_Bit(4, data, prev)
    + 32 * C4_Bit(5, data, prev) + 64 * C4_Bit(6, data, prev)
    + 128 * C4_Bit(7, data, prev)

\* C4: every TCR write of data over a stored value prev leaves
\* (data & 0xFD) | 0xE4 | (prev & 0x02) stored when data bit 2 is clear, and
\* that value with bit 1 cleared when data bit 2 is set.
C4_TcrStoredValue ==
    [][\A data \in TcrData :
          io_w(TCR_REG, data, 2)
          => m_vboy_regs'.tcr = C4_Expected(data, m_vboy_regs.tcr)]_vars

\* the zero flag is set and the timer disabled: only a TCR write that clears
\* the enable bit and keeps the previous flag leaves this value
C4_Witness == m_vboy_regs.tcr = 230

\* C5: the zero flag (stored TCR bit 1) rises only in a timer tick whose
\* guarded decrement leaves the counter at zero, falls only in a TCR write
\* whose data has bit 2 set, and a TCR write leaves it as it was unless data
\* bit 2 is set, whatever data bit 1 is.
C5_ZeroFlagPaths ==
    [][/\ (Bit(m_vboy_regs.tcr, 1) = 0 /\ Bit(m_vboy_regs'.tcr, 1) = 1)
          => (timer_main_tick /\ m_vboy_timer.count <= 1)
       /\ (Bit(m_vboy_regs.tcr, 1) = 1 /\ Bit(m_vboy_regs'.tcr, 1) = 0)
          => \E data \in TcrData : Bit(data, 2) = 1 /\ io_w(TCR_REG, data, 2)
       /\ \A data \in TcrData :
             io_w(TCR_REG, data, 2)
             => Bit(m_vboy_regs'.tcr, 1)
                = (IF Bit(data, 2) = 1 THEN 0 ELSE Bit(m_vboy_regs.tcr, 1))]_vars

\* the flag is up over a counter that an expiry has reloaded from a latch >= 2
C5_Witness ==
    /\ Bit(m_vboy_regs.tcr, 1) = 1
    /\ m_vboy_timer.latch >= 2
    /\ m_vboy_timer.count = m_vboy_timer.latch
    /\ m_maintimer # "never"

\* C6: after a TCR write with bit 0 set has loaded the counter with a latch
\* L >= 1 while the zero flag was clear, the flag is clear until the L-th
\* tick; the L-th tick leaves the flag set and the counter reloaded to L, and
\* CPU line 1 asserted exactly when stored TCR bit 3 is set.
C6_ZeroFlagOnLthTick ==
    h_run.active =>
        /\ h_run.n < h_run.L => Bit(m_vboy_regs.tcr, 1) = 0
        /\ h_run.n = h_run.L =>
              /\ Bit(m_vboy_regs.tcr, 1) = 1
              /\ m_vboy_timer.count = h_run.L
              /\ irq_line[1] <=> (Bit(m_vboy_regs.tcr, 3) = 1)

\* the third tick after a load of 3 has asserted line 1
C6_Witness ==
    /\ h_run.active
    /\ h_run.L = 3
    /\ h_run.n = 3
    /\ irq_line[1]

\* C7: no timer tick is delivered while the stored TCR enable bit is clear
\* (the write that clears the bit cancels the periodic tick).
C7_NoTickWhileDisabled ==
    [][timer_main_tick => Bit(m_vboy_regs.tcr, 0) = 1]_vars

\* what the claim says a sample of segment num at (x, y) returns
C8_Entry(num, x, y) == READ_BGMAP(BgMapOffset(num, x, y))

C8_Dat(num, x, y) ==
    LET row == Load(m_font, (C8_Entry(num, x, y) % 16384) * 8 + (y % 8))
    IN  (row \div (4 ^ (x % 8))) % 4

C8_Colour(num, x, y) ==
    (m_vip_regs.GPLT[(C8_Entry(num, x, y) \div 16384) % 4]
       \div (4 ^ C8_Dat(num, x, y))) % 4

\* C8: sample_bgmap_pixel returns transparent (-1) if and only if the 2-bit
\* tile value dat selected by the entry and (x & 7, y & 7) is 0, and otherwise
\* returns (GPLT[(entry >> 14) & 3] >> (2*dat)) & 3, a value in 0..3.
C8_TransparentIffZero ==
    [][\A in \in PixelInputs :
          sample_bgmap_pixel(in[1], in[2], in[3])
          => /\ (ret' = -1) <=> (C8_Dat(in[1], in[2], in[3]) = 0)
             /\ C8_Dat(in[1], in[2], in[3]) # 0
                => /\ ret' = C8_Colour(in[1], in[2], in[3])
                   /\ ret' \in 0..3]_vars

\* GPLT[0] = 0xE4, tile 0 row 0 = 0xE4, entry 0 = 0: the sample at (2, 0)
\* returned 2
C8_Witness ==
    /\ m_vip_regs.GPLT[0] = 228
    /\ Load(m_font, 0) = 228
    /\ Load(m_bgmap, 0) = 0
    /\ ret = 2

----------------------------------------------------------------------------
\* the cursors of the object group cur_spt, read from the registers
C9_Start(cur_spt) == m_vip_regs.SPT[cur_spt]

C9_End(cur_spt) == IF cur_spt = 0 THEN 1023 ELSE m_vip_regs.SPT[cur_spt - 1]

\* C9 as stated: every finished walk of an object group, made for an Object
\* world with cur_spt in 0..3, visited exactly (end - start) mod 1024 entries.
C9_VisitsEndMinusStart ==
    pass.last_walk.valid =>
        /\ pass.last_walk.cur_spt \in 0..3
        /\ pass.last_walk.n =
              (C9_End(pass.last_walk.cur_spt)
                 - C9_Start(pass.last_walk.cur_spt)) % 1024

\* the number of entries between start and end going down, a full turn of
\* the table when the two are equal
C9_Count(start, end) == ((start - end - 1) % 1024) + 1

\* C9, amended: the object walker of an Object world processed with cur_spt in
\* 0..3 visits exactly (start - end) mod 1024 entries, and 1024 of them when
\* start = end, in descending index order modulo 1024 beginning at start:
\* its k-th visit is entry (start - k + 1) mod 1024 and its last is entry
\* (end + 1) mod 1024.
C9_VisitsStartMinusEndDescending ==
    /\ pass.pc = "obj" =>
          /\ pass.cur_spt \in 0..3
          /\ pass.start_offs = C9_Start(pass.cur_spt)
          /\ pass.end_offs = C9_End(pass.cur_spt)
          /\ pass.n < C9_Count(pass.start_offs, pass.end_offs)
          /\ pass.obj_i = (pass.start_offs - pass.n) % 1024
          /\ pass.n > 0 => pass.visit = (pass.start_offs - pass.n + 1) % 1024
    /\ pass.last_walk.valid =>
          /\ pass.last_walk.cur_spt \in 0..3
          /\ pass.last_walk.start_offs = C9_Start(pass.last_walk.cur_spt)
          /\ pass.last_walk.end_offs = C9_End(pass.last_walk.cur_spt)
          /\ pass.last_walk.n =
                C9_Count(pass.last_walk.start_offs, pass.last_walk.end_offs)
          /\ pass.last_walk.last = (pass.last_walk.end_offs + 1) % 1024

\* the group 3 of SPT = (1023, 0, 3, 1) has been walked: from entry 1 down
\* through entry 0 and entry 1023 to entry 4, 1022 entries
C9_Witness ==
    /\ pass.last_walk.valid
    /\ pass.last_walk.cur_spt = 3
    /\ pass.last_walk.start_offs = 1
    /\ pass.last_walk.end_offs = 3
    /\ pass.last_walk.n = 1022
    /\ pass.last_walk.last = 4

----------------------------------------------------------------------------
\* the END bit of a world, read from its attribute word 0
C10_End(num) == (READ_WORLD(16 * num) \div 64) % 2 = 1

\* the first END world met from 31 downwards, -1 when there is none
C10_FirstEnd ==
    IF \E num \in 0..31 : C10_End(num)
    THEN CHOOSE num \in 0..31 :
            C10_End(num) /\ \A above \in (num + 1)..31 : ~C10_End(above)
    ELSE -1

\* a pass has processed the worlds above the first END world, all of them once
\* it is over, from 31 downwards, and has drawn for and consumed a group for
\* no other world
C10_StopsAtFirstEnd ==
    LET first == C10_FirstEnd
    IN  /\ pass.pc # "idle" => pass.walked = (pass.i + 1)..31
        /\ pass.pc = "idle" => pass.walked = (first + 1)..31
        /\ \A num \in pass.walked : num > first
        /\ \A c \in pass.calls : c[1] > first
        /\ \A num \in pass.consumed : num > first

\* C10 as stated: in each eye pass the worlds are processed from 31 down to
\* the first END world; that world and the worlds below it draw nothing and
\* consume no object group, every world above it is processed.
C10_EachPassStopsAtFirstEnd == pass.made => C10_StopsAtFirstEnd

\* C10, amended: in each eye pass made with DPCTRL bit 1 set the worlds are
\* processed from 31 down to the first END world; that world and the worlds
\* below it draw nothing and consume no object group, whatever their LON, RON
\* and mode bits, and every world above it is processed.  A pass made with
\* DPCTRL bit 1 clear processes no world.
C10_EachDisplayedPassStopsAtFirstEnd ==
    /\ pass.made /\ pass.walking => C10_StopsAtFirstEnd
    /\ pass.made /\ ~pass.walking =>
          pass.walked = {} /\ pass.calls = {} /\ pass.consumed = {}

\* a left-eye pass is over in which world 15 was the first END world: worlds
\* 16..31 were processed, world 30 drew its background, and world 14, with LON
\* set, and the Object world 3 drew nothing
C10_Witness ==
    /\ pass.made /\ pass.walking /\ ~pass.right /\ pass.pc = "idle"
    /\ C10_FirstEnd = 15
    /\ WorldLon(WorldDef(14)) = 1
    /\ WorldMode(WorldDef(3)) = 3
    /\ pass.walked = 16..31
    /\ <<30, "draw_bg_map">> \in pass.calls

----------------------------------------------------------------------------
\* the value the statement gives a DPSTTS read
C13_Dpstts ==
    LET base == BitOr(BitAnd(m_vip_regs.DPCTRL, 1794), 64)
        shown == BitAnd(m_vip_regs.DPCTRL, 2) # 0 /\ m_row_num < 28
    IN  IF shown /\ m_displayfb = 0 THEN BitOr(base, 12)
        ELSE IF shown /\ m_displayfb = 1 THEN BitOr(base, 48)
        ELSE base

\* a tick of the scanlines 1..223 was the last one delivered
C13_InScanlines1To223 == scanline \in 2..224

\* C13 as stated: a DPSTTS read returns (DPCTRL & 0x0702) | 0x40, ORed with
\* 0x0C or 0x30 when DPCTRL bit 1 is set and row_num < 28; after a flip to
\* displayfb = 1 every DPSTTS read during scanlines 1..223 has
\* (value & 0x30) = 0x30; the read changes no state.
C13_DpsttsBusyAfterFlip ==
    [][vip_read(DPSTTS_REG) =>
          /\ ret' = C13_Dpstts
          /\ (m_displayfb = 1 /\ C13_InScanlines1To223) => BitAnd(ret', 48) = 48
          /\ UNCHANGED <<m_vip_regs, m_frame_count, m_displayfb, m_drawfb,
                         m_row_num, irq_line, m_palette, scanline>>]_vars

\* C13, amended: a DPSTTS read returns (DPCTRL & 0x0702) | 0x40, ORed with
\* 0x0C when DPCTRL bit 1 is set, row_num < 28 and displayfb = 0, or with 0x30
\* when DPCTRL bit 1 is set, row_num < 28 and displayfb = 1; after a flip to
\* displayfb = 1 every DPSTTS read during scanlines 1..223 that is made with
\* DPCTRL bit 1 still set has (value & 0x30) = 0x30, and one made with the bit
\* cleared since has (value & 0x3C) = 0; the read changes no state.
C13_DpsttsBusyWhileDisplayOn ==
    [][vip_read(DPSTTS_REG) =>
          /\ ret' = C13_Dpstts
          /\ (m_displayfb = 1 /\ C13_InScanlines1To223) =>
                IF BitAnd(m_vip_regs.DPCTRL, 2) # 0
                THEN BitAnd(ret', 48) = 48
                ELSE BitAnd(ret', 60) = 0
          /\ UNCHANGED <<m_vip_regs, m_frame_count, m_displayfb, m_drawfb,
                         m_row_num, irq_line, m_palette, scanline>>]_vars

\* DPSTTS was read during scanline 100, after a flip to framebuffer 1, with
\* the display on and SYNCE and RE set: 0x0702 | 0x30 | 0x40
C13_Witness ==
    /\ scanline = 101
    /\ m_displayfb = 1
    /\ m_vip_regs.DPCTRL = 770
    /\ ret = 882

----------------------------------------------------------------------------
\* the word offsets of the window 0x0005F800-0x0005F87F, as byte offsets
C17_Window == {2 * k : k \in 0..63}

\* C17: a read at any offset of the VIP register window that does not name a
\* readable register, the write-only INTCLR included, returns 0xFFFF and
\* changes no state.
C17_UnknownReadReturnsFFFF ==
    [][\A reg \in C17_Window \ ReadableRegs :
          vip_read(reg) =>
             /\ ret' = 65535
             /\ UNCHANGED <<m_vip_regs, m_vboy_regs, m_vboy_timer,
                            m_frame_count, m_displayfb, m_drawfb, m_row_num,
                            m_font, m_bgmap, m_maintimer, irq_line, m_palette,
                            scanline>>]_vars

\* 0xFFFF was read while INTENB, the one register that could hold it, holds
\* 0x0010 and INTPND is not empty: the read was of INTCLR or of a hole
C17_Witness ==
    /\ ret = 65535
    /\ m_vip_regs.INTENB = 16
    /\ m_vip_regs.INTPND # 0

----------------------------------------------------------------------------
\* C14: every read of KLB (I/O offset 0x10) returns a value with bit 1 set,
\* from reset onward and after any sequence of KCR writes (sample, clear or
\* both), the input device supplying bit 1 = 1.
C14_KlbBit1Pinned ==
    [][io_read(KLB_REG) => BitAnd(ret', 2) = 2]_vars

----------------------------------------------------------------------------
\* bit b of a 16-bit value, as a number with only that bit
C15_Keep(data, b) == ((data \div (2 ^ b)) % 2) * (2 ^ b)

\* C15: a DPCTRL write stores data & 0x0702 and, exactly when data bit 0 is
\* set, clears INTPND bits 12..0 and leaves bits 15..13; an XPCTRL write stores
\* data & 0x1F02 and, exactly when data bit 0 is set, clears INTPND bits 15..13
\* and leaves bits 12..0; neither write changes INTENB.
C15_ResetBitsClearTheirInterrupts ==
    [][\A data \in CtrlData :
          /\ vip_w(DPCTRL_REG, data) =>
                /\ m_vip_regs'.DPCTRL =
                      C15_Keep(data, 10) + C15_Keep(data, 9) + C15_Keep(data, 8)
                         + C15_Keep(data, 1)
                /\ m_vip_regs'.INTPND =
                      IF data % 2 = 1
                      THEN (m_vip_regs.INTPND \div 8192) * 8192
                      ELSE m_vip_regs.INTPND
                /\ m_vip_regs'.INTENB = m_vip_regs.INTENB
          /\ vip_w(XPCTRL_REG, data) =>
                /\ m_vip_regs'.XPCTRL =
                      C15_Keep(data, 12) + C15_Keep(data, 11) + C15_Keep(data, 10)
                         + C15_Keep(data, 9) + C15_Keep(data, 8) + C15_Keep(data, 1)
                /\ m_vip_regs'.INTPND =
                      IF data % 2 = 1
                      THEN m_vip_regs.INTPND % 8192
                      ELSE m_vip_regs.INTPND
                /\ m_vip_regs'.INTENB = m_vip_regs.INTENB]_vars

\* 0xFFFF was written to XPCTRL and 0xFFFE to DPCTRL while XP_END, SB_HIT and
\* the five display interrupts were pending: the display interrupts are left
C15_Witness ==
    /\ m_vip_regs.XPCTRL = 7938
    /\ m_vip_regs.DPCTRL = 1794
    /\ m_vip_regs.INTPND = 30
    /\ m_vip_regs.INTENB = 24576

----------------------------------------------------------------------------
\* C19: a write of any value to a read-only VIP register (INTPND, DPSTTS,
\* XPSTTS, VER) or to a VIP offset that names no register leaves INTPND,
\* INTENB, every other VIP register, the scheduler state and CPU line 4
\* unchanged.
C19_IgnoredWritesChangeNothing ==
    [][\A reg \in IgnoredRegs, data \in IgnoredWriteData :
          vip_w(reg, data) =>
             UNCHANGED <<m_vip_regs, m_frame_count, m_displayfb, m_drawfb,
                         m_row_num, scanline, irq_line, m_palette>>]_vars

\* enabled interrupts are pending and line 4 is asserted, in the middle of a
\* frame: the state the ignored writes are made in and leave
C19_Witness ==
    /\ m_vip_regs.INTPND = 24606
    /\ m_vip_regs.INTENB = 24576
    /\ irq_line[4]
    /\ m_vip_regs.DPCTRL = 1794
    /\ scanline = 241
    /\ ENABLED VipIgnoredWrite

----------------------------------------------------------------------------
\* display_world is entered for an Object-mode world that is not an END
\* world, all four groups consumed
C18_Underflow ==
    /\ pass.pc = "world"
    /\ BitAnd(READ_WORLD(16 * pass.i), 64) = 0
    /\ (READ_WORLD(16 * pass.i) \div 4096) % 4 = 3
    /\ pass.cur_spt = -1

\* C18: in one eye pass, an Object-mode world met when all four object groups
\* are consumed (cur_spt = -1) draws nothing, reads no SPT register and leaves
\* cur_spt at -1, and the walk continues with the next lower world index
\* instead of stopping; cur_spt is always within -1..3.
C18_UnderflowSkipsWorld ==
    /\ [](pass.cur_spt \in -1..3)
    /\ [][(C18_Underflow /\ display_world) =>
             /\ pass'.calls = pass.calls
             /\ pass'.consumed = pass.consumed
             /\ pass'.cur_spt = -1
             /\ pass'.pc # "obj"
             /\ pass'.start_offs = pass.start_offs
             /\ pass'.end_offs = pass.end_offs
             /\ pass'.last_walk = pass.last_walk
             /\ pass'.walked = pass.walked \cup {pass.i}
             /\ ret' = 0
             /\ IF pass.i > 0
                THEN pass'.pc = "world" /\ pass'.i = pass.i - 1
                ELSE pass'.pc = "idle"]_vars

\* the four groups went to the worlds 31, 29, 27 and 26; the Object world 25
\* was passed without a call and the walk is at world 24
C18_Witness ==
    /\ pass.pc = "world"
    /\ pass.i = 24
    /\ pass.cur_spt = -1
    /\ pass.consumed = {31, 29, 27, 26}
    /\ (READ_WORLD(16 * 25) \div 4096) % 4 = 3
    /\ 25 \in pass.walked
    /\ \A c \in pass.calls : c[1] # 25

----------------------------------------------------------------------------
\* C20: a TCR write with data bit 0 set always copies the latch into the
\* counter, but arms the periodic tick only when the stored TCR enable bit was
\* 0 before the write; when the enable bit was already 1 the pending tick
\* schedule and its rate are left as they are, and a write with data bit 0
\* clear never arms the tick.
C20_ArmsOnEnableEdgeOnly ==
    [][\A data \in TcrData :
          io_w(TCR_REG, data, 2) =>
             /\ data % 2 = 1 => m_vboy_timer'.count = m_vboy_timer.latch
             /\ (data % 2 = 1 /\ m_vboy_regs.tcr % 2 = 0) =>
                   m_maintimer' = IF (data \div 16) % 2 = 1 THEN "20us" ELSE "100us"
             /\ (data % 2 = 1 /\ m_vboy_regs.tcr % 2 = 1) =>
                   m_maintimer' = m_maintimer
             /\ data % 2 = 0 => m_maintimer' = m_maintimer]_vars

\* the timer was enabled at the 100 us rate and TCR was then written with the
\* enable bit and the 20 us rate: the stored rate bit is set, the latch of 3
\* was copied to the counter, and the tick armed at 100 us is still pending
C20_Witness ==
    /\ m_vboy_regs.tcr % 2 = 1
    /\ (m_vboy_regs.tcr \div 16) % 2 = 1
    /\ m_maintimer = "100us"
    /\ m_vboy_timer.latch = 3
    /\ m_vboy_timer.count = 3

----------------------------------------------------------------------------
\* C16: with FRMCYC holding n, a scanline-0 tick that finds the frame counter
\* in 0..n leaves it at the next count modulo n+1; the tick raises GAME_START
\* (0x0008) when that count is 0 and does not raise it otherwise, whether or
\* not DPCTRL bit 1 is set, so that GAME_START comes on every (n+1)-th tick.
C16_CountsModuloFrmcycPlus1 ==
    [][(FrameScanline /\ scanline = 0 /\ m_frame_count <= m_vip_regs.FRMCYC) =>
          /\ m_frame_count' = (m_frame_count + 1) % (m_vip_regs.FRMCYC + 1)
          /\ m_frame_count' = 0 => BitAnd(m_vip_regs'.INTPND, 8) = 8
          /\ m_frame_count' # 0 =>
                 BitAnd(m_vip_regs'.INTPND, 8) = BitAnd(m_vip_regs.INTPND, 8)]_vars

----------------------------------------------------------------------------
\* C21: a BGMap write of data d with byte mask m to word i leaves the bits of
\* word i outside m as they were, makes the bits inside m those of d, and
\* changes no other word, for every d, m and previous contents.
C21_BgmapWritePreservesByteMask ==
    [][\A i \in MapOffsets, d \in MapData, m \in MapMasks :
          vboy_bgmap_w(i, d, m) =>
             /\ BitAnd(Load(m_bgmap', i), 65535 - m) =
                   BitAnd(Load(m_bgmap, i), 65535 - m)
             /\ BitAnd(Load(m_bgmap', i), m) = BitAnd(d, m)
             /\ \A j \in MapOffsets \ {i} :
                   Load(m_bgmap', j) = Load(m_bgmap, j)]_vars

----------------------------------------------------------------------------
\* the word offset of the entry for segment seg and source (x, y), with the
\* segment steps taken modulo steps
C22_Offset(steps, seg, x, y) ==
    LET cx == x \div 8
        cy == y \div 8
        stepx == (cx \div 64) % steps
        stepy == ((cy \div 64) % steps) * (stepx + 1)
    IN  ((cx % 64) + 64 * (cy % 64) + 4096 * (seg + stepx + stepy)) % 65536

\* what a sample of (x, y) returns when the entry is the word at offset off
C22_Sampled(off, x, y) ==
    LET entry == Load(m_bgmap, off)
        row == Load(m_font, (entry % 16384) * 8 + (y % 8))
        dat == (row \div (4 ^ (x % 8))) % 4
    IN  IF dat = 0 THEN -1
        ELSE (m_vip_regs.GPLT[(entry \div 16384) % 4] \div (4 ^ dat)) % 4

\* C22, as stated: for every segment and masked source (x, y) the sampler
\* fetches the entry at ((cx & 63) + 64*(cy & 63) + 0x1000*(segment + stepx +
\* stepy)) mod 65536 with stepx = (cx >> 6) & 3 and
\* stepy = ((cy >> 6) & 3) * (stepx + 1).
C22_FetchesStepsOfTwoBits ==
    [][\A in \in StepInputs :
          sample_bgmap_pixel(in[1], in[2], in[3]) =>
             ret' = C22_Sampled(C22_Offset(4, in[1], in[2], in[3]),
                                in[2], in[3])]_vars

\* C22, amended: the same with stepx = (cx >> 6) & 7 and
\* stepy = ((cy >> 6) & 7) * (stepx + 1).
C22_FetchesStepsOfThreeBits ==
    [][\A in \in StepInputs :
          sample_bgmap_pixel(in[1], in[2], in[3]) =>
             ret' = C22_Sampled(C22_Offset(8, in[1], in[2], in[3]),
                                in[2], in[3])]_vars

\* entries 0 and 0x4000 name characters 1 and 2, both written, GPLT[0] is the
\* identity palette, and the sample at x = 2048 returned character 2's pixel
C22_Witness ==
    /\ Load(m_bgmap, 0) = 1
    /\ Load(m_bgmap, 16384) = 2
    /\ Load(m_font, 8) = 1
    /\ Load(m_font, 16) = 2
    /\ m_vip_regs.GPLT[0] = 228
    /\ ret = 2

----------------------------------------------------------------------------
\* the Object worlds above world num that are switched on for the eye
C23_GroupsUsed(num, right) ==
    Cardinality({w \in (num + 1)..31 :
                    WorldMode(WorldDef(w)) = 3 /\ WorldOn(WorldDef(w), right)})

\* C23: a pass starts with cur_spt = 3 whatever the other eye's pass left; the
\* Object world reached after k Object worlds switched on for the pass's eye
\* (k = 0..3) walks group SPT[3-k]; an Object world dispatches each object by
\* the object's own jlon / jron bit, and when its walk ends cur_spt is one less
\* if the world is switched on for the eye and unchanged if it is not; worlds
\* of the other modes leave cur_spt alone.
C23_GroupPerEnabledObjectWorld ==
    [][/\ (\E right \in BOOLEAN : screen_update(right)) => pass'.cur_spt = 3
       /\ display_world =>
             /\ pass'.cur_spt = pass.cur_spt
             /\ (/\ WorldEnd(WorldDef(pass.i)) = 0
                 /\ WorldMode(WorldDef(pass.i)) = 3
                 /\ C23_GroupsUsed(pass.i, pass.right) <= 3) =>
                   LET k == C23_GroupsUsed(pass.i, pass.right)
                   IN  /\ pass'.pc = "obj"
                       /\ pass.cur_spt = 3 - k
                       /\ pass'.start_offs = m_vip_regs.SPT[3 - k]
                       /\ pass'.obj_i = m_vip_regs.SPT[3 - k]
       /\ display_world_obj =>
             LET w1 == Load(m_bgmap, 61440 + 4 * pass.obj_i + 1)
                 own == IF pass.right THEN (w1 \div 16384) % 2
                                      ELSE (w1 \div 32768) % 2
                 on == WorldOn(WorldDef(pass.i), pass.right)
             IN  /\ own = 1 => <<pass.i, "put_obj">> \in pass'.calls
                 /\ own = 0 => pass'.calls = pass.calls
                 /\ pass'.pc = "obj" => pass'.cur_spt = pass.cur_spt
                 /\ (pass'.pc # "obj" /\ on) => pass'.cur_spt = pass.cur_spt - 1
                 /\ (pass'.pc # "obj" /\ ~on) => pass'.cur_spt = pass.cur_spt]_vars

\* the right pass of the scene whose worlds 31 and 30 are Object worlds not
\* switched on for the right eye: world 30 walks group 3 again, after world 31
\* put an object of its own
C23_Witness ==
    /\ pass.right
    /\ pass.pc = "obj"
    /\ pass.i = 30
    /\ 31 \in pass.walked
    /\ WorldMode(WorldDef(31)) = 3
    /\ ~WorldOn(WorldDef(31), TRUE)
    /\ pass.cur_spt = 3
    /\ <<31, "put_obj">> \in pass.calls

----------------------------------------------------------------------------
\* C24: after every timer tick, the tick on which the counter reaches zero and
\* is reloaded from the latch included, a read of TLB returns counter & 0xFF
\* and a read of THB returns counter >> 8.
C24_MirrorsFollowCounter ==
    [][timer_main_tick =>
          /\ io_r(TLB_REG)' = m_vboy_timer'.count % 256
          /\ io_r(THB_REG)' = m_vboy_timer'.count \div 256]_vars

----------------------------------------------------------------------------
\* whether interrupt bit b is pending after the step and was not before
C25_Raised(b) ==
    /\ (m_vip_regs.INTPND \div b) % 2 = 0
    /\ (m_vip_regs'.INTPND \div b) % 2 = 1

\* C25: drawfb is changed only by the tick of scanline 224, which sets it to 1
\* if displayfb = 1 and to 2 otherwise and raises XP_END (0x4000), and by the
\* tick of scanline 232, which sets it to 0 and raises LFB_END (0x0002);
\* RFB_END (0x0004) is raised only by the tick of scanline 240; so with the
\* ticks in order 0..263, XP_END, LFB_END and RFB_END are raised in that order
\* in every frame and drawfb is nonzero exactly from the 224 tick until the
\* 232 tick.
C25_DrawWindow ==
    /\ [](m_drawfb # 0 <=> scanline \in 225..232)
    /\ [][/\ m_drawfb' # m_drawfb =>
                vboy_scanlineL /\ scanline \in {224, 232}
          /\ (vboy_scanlineL /\ scanline = 224) =>
                /\ m_drawfb' = IF m_displayfb = 1 THEN 1 ELSE 2
                /\ (m_vip_regs'.INTPND \div 16384) % 2 = 1
          /\ (vboy_scanlineL /\ scanline = 232) =>
                /\ m_drawfb' = 0
                /\ (m_vip_regs'.INTPND \div 2) % 2 = 1
          /\ (vboy_scanlineL /\ scanline = 240) =>
                (m_vip_regs'.INTPND \div 4) % 2 = 1
          /\ C25_Raised(16384) => vboy_scanlineL /\ scanline = 224
          /\ C25_Raised(2) => vboy_scanlineL /\ scanline = 232
          /\ C25_Raised(4) => vboy_scanlineL /\ scanline = 240]_vars

\* between the ticks of scanlines 224 and 232 of a frame displaying buffer
\* pair 1: drawfb is 1, XP_END is pending, LFB_END and RFB_END are not
C25_Witness ==
    /\ scanline = 230
    /\ m_displayfb = 1
    /\ m_drawfb = 1
    /\ (m_vip_regs.INTPND \div 16384) % 2 = 1
    /\ (m_vip_regs.INTPND \div 2) % 2 = 0
    /\ (m_vip_regs.INTPND \div 4) % 2 = 0

----------------------------------------------------------------------------
\* C29: in every state reached from reset by scanline ticks in order and
\* register writes, drawfb is 0, 1 or 2, and a nonzero drawfb is 1 if
\* displayfb = 1 and 2 otherwise; the busy bits of an XPSTTS read (bits 2..3)
\* are drawfb, so they name the buffer pair that goes with displayfb.
C29_DrawBufferFollowsDisplay ==
    /\ m_drawfb \in {0, 1, 2}
    /\ m_displayfb \in {0, 1}
    /\ m_drawfb # 0 => m_drawfb = IF m_displayfb = 1 THEN 1 ELSE 2
    /\ (vip_r(XPSTTS_REG) \div 4) % 4 = m_drawfb

\* a draw in progress while buffer pair 0 is displayed: drawfb is 2
C29_Witness ==
    /\ scanline = 228
    /\ m_displayfb = 0
    /\ m_drawfb = 2
    /\ (vip_r(XPSTTS_REG) \div 4) % 4 = 2

----------------------------------------------------------------------------
\* the 2-bit value get_bg_map_pixel and put_obj extract for character
\* number code (entry & 0x3fff) at column x of row y
C26_Dat(code, x, y) == TileDat(READ_FONT(code * 8 + y), x)

\* C26: after any sequence of character writes, for every tile t and pixel
\* (x, y), an entry with bit 13 set gets the unflipped tile's value at column
\* 7-x, with bit 12 set the value at row 7-y, with both set the value at
\* (7-x, 7-y), and bit 11 of the entry changes none of these.
C26_FlipBitsSelectMirrors ==
    \A t \in FontTilesStored \cup {0, 2047} : \A x \in 0..7, y \in 0..7 :
        \A u \in {0, 2048} :
            /\ C26_Dat(t + u, x, y) = C26_Dat(t, x, y)
            /\ C26_Dat(t + u + 8192, x, y) = C26_Dat(t, 7 - x, y)
            /\ C26_Dat(t + u + 4096, x, y) = C26_Dat(t, x, 7 - y)
            /\ C26_Dat(t + u + 12288, x, y) = C26_Dat(t, 7 - x, 7 - y)

\* row 0 of tile 2047 holds pixels 0,1,2,3,0,0,0,0 and row 7 holds none: the
\* entry flipped in x has the 3 at column 4, the entry flipped in y and
\* carrying bit 11 has it in row 7
C26_Witness ==
    /\ Load(m_font, 16376) = 228
    /\ Load(m_font, 16383) = 0
    /\ C26_Dat(2047 + 8192, 4, 0) = 3
    /\ C26_Dat(2047 + 4096 + 2048, 3, 7) = 3

----------------------------------------------------------------------------
\* the raw signed parameter k of row y at param_base 0
C27_Param(y, k) ==
    LET v == Load(m_bgmap, 8 * y + k) IN IF v >= 32768 THEN v - 65536 ELSE v

\* the numerator over 512 of skew + scale * x, the skew of unit 1/den pixel
C27_Sum(den, skew, scale, x) == (512 \div den) * skew + scale * x

C27_Trunc(n) == IF n >= 0 THEN n \div 512 ELSE -((-n) \div 512)

----------------------------------------------------------------------------
\* C28: after reset, over any TLB/THB/TCR writes and timer ticks, CPU line 1
\* is asserted only while stored TCR bit 3 is set: a tick asserts the line only
\* if bit 3 is set, every TCR write with data bit 3 clear deasserts it, and a
\* TCR write with data bit 3 set leaves the line as it was, also when the
\* write acknowledges the zero flag.
C28_TimerLineOnlyWhileEnabled ==
    /\ [](irq_line[1] => (m_vboy_regs.tcr \div 8) % 2 = 1)
    /\ [][/\ (timer_main_tick /\ irq_line'[1] /\ ~irq_line[1]) =>
                (m_vboy_regs.tcr \div 8) % 2 = 1
          /\ \A data \in TcrData :
                io_w(TCR_REG, data, 2) =>
                   /\ (data \div 8) % 2 = 0 => ~irq_line'[1]
                   /\ (data \div 8) % 2 = 1 => irq_line'[1] = irq_line[1]
          /\ \A data \in TlbData :
                io_w(TLB_REG, data, 2) => irq_line'[1] = irq_line[1]
          /\ \A data \in ThbData :
                io_w(THB_REG, data, 2) => irq_line'[1] = irq_line[1]]_vars

\* the line is asserted, the interrupt is enabled and the zero flag has been
\* acknowledged by a write that kept bit 3 set
C28_Witness ==
    /\ irq_line[1]
    /\ (m_vboy_regs.tcr \div 8) % 2 = 1
    /\ (m_vboy_regs.tcr \div 2) % 2 = 0

----------------------------------------------------------------------------
\* C30: after any sequence of VIP writes every SPT[k] is at most 0x3FF, the
\* object walk of an Object world ends after visiting at least 1 and at most
\* 1024 entries, and every eye pass that has started ends.
C30_ObjectWalkTerminates ==
    /\ [](\A k \in 0..3 : m_vip_regs.SPT[k] \in 0..1023)
    /\ [](pass.pc = "obj" => pass.n \in 0..1023)
    /\ [](pass.last_walk.valid => pass.last_walk.n \in 1..1024)
    /\ ((pass.pc # "idle") ~> (pass.pc = "idle"))

\* 0xFFFF was written to SPT2 and SPT3 and stored as 0x3FF: the pass walked
\* the whole table, 1024 entries, and returned
C30_Witness ==
    /\ m_vip_regs.SPT[3] = 1023
    /\ m_vip_regs.SPT[2] = 1023
    /\ pass.pc = "idle"
    /\ pass.last_walk.valid
    /\ pass.last_walk.start_offs = 1023
    /\ pass.last_walk.n = 1024

====
